---- MODULE Spec2Model ----
(***************************************************************************)
(* A model of the mini query runner: the QueryRunner engine of            *)
(* src/src/query_runner.py (parser, loader with cache, SELECT / TAKE /     *)
(* ORDERBY / COUNTBY operators, hash join and sort-merge join, result      *)
(* rendering).                                                             *)
(*                                                                         *)
(* Python values are modelled as follows.                                  *)
(*   str        a sequence of one-character strings                        *)
(*   cell       [int, n, s]: an int cell has int = TRUE and value n, a str *)
(*              cell has int = FALSE and text s                            *)
(*   namedtuple [f |-> field names, v |-> cells]                           *)
(*   list       a sequence                                                 *)
(* An operation that can raise returns a record whose field "raised" is    *)
(* the name of the exception, or "" when it returns normally.              *)
(***************************************************************************)
EXTENDS Integers, Sequences, FiniteSets, TLC

(***************************************************************************)
(* Bounds of the model.                                                    *)
(***************************************************************************)
MaxRows == 3
MaxTake == 4
MaxQueries == 2
MaxCalls == 2

MaxCell == 3

MaxBody == 2

MaxMsgs == 2

MaxSends == 2

(***************************************************************************)
(* Characters and strings.                                                 *)
(***************************************************************************)
Alphabet ==
  << "\t", "\n", " ", ",", "-", ".",
     "0", "1", "2", "3", "4", "5", "6", "7", "8", "9",
     "A", "B", "C", "D", "E", "F", "G", "H", "I", "J", "K", "L", "M",
     "N", "O", "P", "Q", "R", "S", "T", "U", "V", "W", "X", "Y", "Z", "_",
     "a", "b", "c", "d", "e", "f", "g", "h", "i", "j", "k", "l", "m",
     "n", "o", "p", "q", "r", "s", "t", "u", "v", "w", "x", "y", "z" >>

Ord(c) == CHOOSE i \in 1..Len(Alphabet) : Alphabet[i] = c

Digits == <<"0", "1", "2", "3", "4", "5", "6", "7", "8", "9">>

IsDigit(c) == \E i \in 1..10 : Digits[i] = c

DigitVal(c) == (CHOOSE i \in 1..10 : Digits[i] = c) - 1

IsSpace(c) == c \in {" ", "\t", "\n"}

Min(a, b) == IF a < b THEN a ELSE b

Max(a, b) == IF a < b THEN b ELSE a

Contains(seq, x) == \E i \in 1..Len(seq) : seq[i] = x

IndexOf(seq, x) == CHOOSE i \in 1..Len(seq) : seq[i] = x /\ \A j \in 1..(i - 1) : seq[j] # x

RECURSIVE rstrip(_)
rstrip(s) ==
  IF s = <<>> THEN <<>>
  ELSE IF IsSpace(s[Len(s)]) THEN rstrip(SubSeq(s, 1, Len(s) - 1))
  ELSE s

(* str.split(sep) for a one-character separator: always at least one piece *)
RECURSIVE SplitFrom(_, _, _, _)
SplitFrom(s, sep, i, cur) ==
  IF i > Len(s) THEN <<cur>>
  ELSE IF s[i] = sep THEN <<cur>> \o SplitFrom(s, sep, i + 1, <<>>)
  ELSE SplitFrom(s, sep, i + 1, Append(cur, s[i]))

split(s, sep) == SplitFrom(s, sep, 1, <<>>)

(* str.split() without argument: runs of whitespace separate, no empty piece *)
RECURSIVE SplitWsFrom(_, _, _)
SplitWsFrom(s, i, cur) ==
  IF i > Len(s) THEN (IF cur = <<>> THEN <<>> ELSE <<cur>>)
  ELSE IF IsSpace(s[i])
       THEN (IF cur = <<>> THEN <<>> ELSE <<cur>>) \o SplitWsFrom(s, i + 1, <<>>)
  ELSE SplitWsFrom(s, i + 1, Append(cur, s[i]))

splitws(s) == SplitWsFrom(s, 1, <<>>)

RECURSIVE join(_, _)
join(sep, parts) ==
  IF parts = <<>> THEN <<>>
  ELSE IF Len(parts) = 1 THEN parts[1]
  ELSE parts[1] \o sep \o join(sep, Tail(parts))

isnumeric(t) == t # <<>> /\ \A i \in 1..Len(t) : IsDigit(t[i])

(* int(t) of a string of decimal digits *)
RECURSIVE int(_)
int(t) == IF t = <<>> THEN 0 ELSE 10 * int(SubSeq(t, 1, Len(t) - 1)) + DigitVal(t[Len(t)])

(* str(n) of a natural number *)
RECURSIVE StrNat(_)
StrNat(n) == IF n < 10 THEN <<Digits[n + 1]>> ELSE StrNat(n \div 10) \o <<Digits[(n % 10) + 1]>>

(* s < t on str: code point order, a proper prefix is smaller *)
RECURSIVE StrLt(_, _)
StrLt(s, t) ==
  IF t = <<>> THEN FALSE
  ELSE IF s = <<>> THEN TRUE
  ELSE IF s[1] = t[1] THEN StrLt(Tail(s), Tail(t))
  ELSE Ord(s[1]) < Ord(t[1])

(***************************************************************************)
(* Cells and rows.                                                         *)
(***************************************************************************)
IntCell(k) == [int |-> TRUE, n |-> k, s |-> <<>>]

TextCell(t) == [int |-> FALSE, n |-> 0, s |-> t]

(* the < of two cells is defined between two int or two str values only *)
Comparable(a, b) == a.int = b.int

CellLt(a, b) == IF a.int THEN a.n < b.n ELSE StrLt(a.s, b.s)

CellStr(c) == IF c.int THEN StrNat(c.n) ELSE c.s

Row(fields, vals) == [f |-> fields, v |-> vals]

HasField(r, c) == Contains(r.f, c)

(* getattr(r, c) of a row that has field c *)
getattr(r, c) == r.v[IndexOf(r.f, c)]

HasDuplicates(seq) == \E i, j \in 1..Len(seq) : i < j /\ seq[i] = seq[j]

(***************************************************************************)
(* Results of the operations: the rows returned, the error message         *)
(* returned with them, and the exception raised instead of returning.      *)
(***************************************************************************)
Ok(rows) == [raised |-> "", rows |-> rows, err |-> <<>>]

Err(msg) == [raised |-> "", rows |-> <<>>, err |-> msg]

Raise(exc) == [raised |-> exc, rows |-> <<>>, err |-> <<>>]

s_count == <<"c", "o", "u", "n", "t">>

MsgColumn == <<"c", "o", "l", "u", "m", "n", " ">>

MsgNotExist == <<" ", "d", "o", "e", "s", " ", "n", "o", "t", " ", "e", "x", "i", "s", "t">>

(***************************************************************************)
(* SELECT                                                                  *)
(***************************************************************************)
SelectRow(r, cols) == Row(cols, [k \in 1..Len(cols) |-> getattr(r, cols[k])])

_select(rows, colsArg) ==
  LET cols == split(rstrip(colsArg), ",")
      missing == {k \in 1..Len(cols) : ~HasField(rows[1], cols[k])}
  IN  IF missing # {}
      THEN LET k == CHOOSE m \in missing : \A o \in missing : m <= o
           IN  Err(MsgColumn \o cols[k] \o MsgNotExist)
      ELSE IF HasDuplicates(cols) THEN Raise("ValueError")
      ELSE Ok([i \in 1..Len(rows) |-> SelectRow(rows[i], cols)])

(***************************************************************************)
(* TAKE                                                                    *)
(***************************************************************************)
(* a _take whose negative branch slices from the wrong end: rows[-num_rows:] *)
_takeSkips(rows, num_rows) ==
  IF num_rows < 0
  THEN SubSeq(rows, Min(0 - num_rows, Len(rows)) + 1, Len(rows))
  ELSE SubSeq(rows, 1, Min(num_rows, Len(rows)))

(* a _take without the branch for a negative count: rows[:num_rows] *)
_takeNoNegativeBranch(rows, num_rows) ==
  IF num_rows < 0
  THEN SubSeq(rows, 1, Max(Len(rows) + num_rows, 0))
  ELSE SubSeq(rows, 1, Min(num_rows, Len(rows)))

_take(rows, num_rows) ==
  IF num_rows < 0
  THEN SubSeq(rows, Max(Len(rows) + num_rows, 0) + 1, Len(rows))
  ELSE SubSeq(rows, 1, Min(num_rows, Len(rows)))

(***************************************************************************)
(* ORDERBY: sorted(rows, key=attrgetter(order_col), reverse=reverse)       *)
(***************************************************************************)
(* x goes before the first row it must precede; rows with an equal key stay *)
(* in front of it, so the sort is stable in both directions                *)
RECURSIVE SortedInsert(_, _, _, _)
SortedInsert(sorted, x, col, reverse) ==
  IF sorted = <<>> THEN <<x>>
  ELSE LET y == sorted[1]
           before == IF reverse THEN CellLt(getattr(y, col), getattr(x, col))
                     ELSE CellLt(getattr(x, col), getattr(y, col))
       IN  IF before THEN <<x>> \o sorted
           ELSE <<y>> \o SortedInsert(Tail(sorted), x, col, reverse)

RECURSIVE StableSort(_, _, _)
StableSort(rows, col, reverse) ==
  IF rows = <<>> THEN <<>>
  ELSE SortedInsert(StableSort(SubSeq(rows, 1, Len(rows) - 1), col, reverse),
                    rows[Len(rows)], col, reverse)

(* a descending sort made by reversing the ascending one: ties come out in *)
(* reverse input order                                                      *)
_orderbyReversed(rows, order_col, reverse) ==
  IF \E i \in 1..Len(rows) : ~HasField(rows[i], order_col)
  THEN Raise("AttributeError")
  ELSE IF \E i, j \in 1..Len(rows) :
            ~Comparable(getattr(rows[i], order_col), getattr(rows[j], order_col))
  THEN Raise("TypeError")
  ELSE IF reverse
  THEN Ok([i \in 1..Len(rows) |->
             StableSort(rows, order_col, FALSE)[Len(rows) + 1 - i]])
  ELSE Ok(StableSort(rows, order_col, FALSE))

_orderby(rows, order_col, reverse) ==
  IF \E i \in 1..Len(rows) : ~HasField(rows[i], order_col)
  THEN Raise("AttributeError")
  ELSE IF \E i, j \in 1..Len(rows) :
            ~Comparable(getattr(rows[i], order_col), getattr(rows[j], order_col))
  THEN Raise("TypeError")
  ELSE Ok(StableSort(rows, order_col, reverse))

(***************************************************************************)
(* COUNTBY                                                                 *)
(***************************************************************************)
(* the keys of count_dict, in insertion order *)
RECURSIVE CountKeys(_, _)
CountKeys(rows, count_col) ==
  IF rows = <<>> THEN <<>>
  ELSE LET rest == CountKeys(SubSeq(rows, 1, Len(rows) - 1), count_col)
           k == getattr(rows[Len(rows)], count_col)
       IN  IF Contains(rest, k) THEN rest ELSE Append(rest, k)

CountOf(rows, count_col, k) ==
  Cardinality({i \in 1..Len(rows) : getattr(rows[i], count_col) = k})

_countby(rows, count_col) ==
  IF count_col = s_count THEN Raise("ValueError")
  ELSE IF \E i \in 1..Len(rows) : ~HasField(rows[i], count_col)
  THEN Raise("AttributeError")
  ELSE LET keys == CountKeys(rows, count_col)
       IN  Ok([i \in 1..Len(keys) |->
                 Row(<<count_col, s_count>>,
                     <<keys[i], IntCell(CountOf(rows, count_col, keys[i]))>>)])

(***************************************************************************)
(* JOIN                                                                    *)
(***************************************************************************)
(* the output columns with the right relation's columns put first *)
_get_joined_colsRightFirst(left_rows, right_rows, join_col) ==
  SelectSeq(right_rows[1].f, LAMBDA c : c # join_col) \o left_rows[1].f

_get_joined_cols(left_rows, right_rows, join_col) ==
  left_rows[1].f \o SelectSeq(right_rows[1].f, LAMBDA c : c # join_col)

(* the JoinRow built from first._asdict() updated with second._asdict() *)
JoinRow(output_cols, first, second) ==
  Row(output_cols,
      [k \in 1..Len(output_cols) |->
         IF HasField(second, output_cols[k]) THEN getattr(second, output_cols[k])
         ELSE getattr(first, output_cols[k])])

JoinKeys(rows, join_col) == {getattr(rows[i], join_col) : i \in 1..Len(rows)}

(* the positions, 1-based, of the rows of small with join value key, ascending *)
RECURSIVE MatchingFrom(_, _, _, _)
MatchingFrom(small, join_col, key, i) ==
  IF i > Len(small) THEN <<>>
  ELSE (IF getattr(small[i], join_col) = key THEN <<i>> ELSE <<>>)
       \o MatchingFrom(small, join_col, key, i + 1)

(* a build phase that keeps one position per join value: lookup[key] = [i] *)
BuildLookupLast(small, join_col) ==
  [key \in JoinKeys(small, join_col) |->
     <<CHOOSE i \in 1..Len(small) :
         /\ getattr(small[i], join_col) = key
         /\ \A j \in (i + 1)..Len(small) : getattr(small[j], join_col) # key>>]

(* build phase: join value -> list of positions in the build side *)
BuildLookup(small, join_col) ==
  [key \in JoinKeys(small, join_col) |-> MatchingFrom(small, join_col, key, 1)]

(* probe phase, from row j of the probe side on *)
RECURSIVE Probe(_, _, _, _, _, _)
Probe(big, small, lookup, output_cols, join_col, j) ==
  IF j > Len(big) THEN <<>>
  ELSE LET key == getattr(big[j], join_col)
           hits == IF key \in DOMAIN lookup THEN lookup[key] ELSE <<>>
       IN  [m \in 1..Len(hits) |-> JoinRow(output_cols, small[hits[m]], big[j])]
           \o Probe(big, small, lookup, output_cols, join_col, j + 1)

_hash_join(left_rows, right_rows, join_col) ==
  LET output_cols == _get_joined_cols(left_rows, right_rows, join_col)
      leftSmall == Len(left_rows) <= Len(right_rows)
      small == IF leftSmall THEN left_rows ELSE right_rows
      big == IF leftSmall THEN right_rows ELSE left_rows
  IN  IF HasDuplicates(output_cols) THEN Raise("ValueError")
      ELSE IF ~HasField(small[1], join_col) \/ ~HasField(big[1], join_col)
      THEN Raise("AttributeError")
      ELSE Ok(Probe(big, small, BuildLookup(small, join_col), output_cols, join_col, 1))

(* mark = None *)
None == -1

(* "not mark" is true of None and of 0 *)
NotMark(mark) == mark = None \/ mark = 0

(* while val(cur) < other: cur += 1; val = rows[cur]   (cursors are 0-based) *)
RECURSIVE CatchUp(_, _, _, _)
CatchUp(rows, join_col, cur, other) ==
  LET val == getattr(rows[cur + 1], join_col)
  IN  IF ~Comparable(val, other) THEN [raised |-> "TypeError", cur |-> cur]
      ELSE IF ~CellLt(val, other) THEN [raised |-> "", cur |-> cur]
      ELSE IF cur + 1 >= Len(rows) THEN [raised |-> "IndexError", cur |-> cur + 1]
      ELSE CatchUp(rows, join_col, cur + 1, other)

(* the cursor of a side that needs no catch-up *)
Stay(cur) == [raised |-> "", cur |-> cur]

RECURSIVE MergeLoop(_, _, _, _, _, _, _, _)

(* the end of one iteration: l and r are the cursors after the catch-up *)
MergeMatch(sorted_left, sorted_right, output_cols, join_col, mark, l, r, join_output) ==
  IF r.raised # "" THEN Raise(r.raised)
  ELSE IF getattr(sorted_left[l.cur + 1], join_col) = getattr(sorted_right[r.cur + 1], join_col)
  THEN MergeLoop(sorted_left, sorted_right, output_cols, join_col,
                 IF NotMark(mark) THEN r.cur ELSE mark, l.cur, r.cur + 1,
                 Append(join_output,
                        JoinRow(output_cols, sorted_left[l.cur + 1], sorted_right[r.cur + 1])))
  ELSE MergeLoop(sorted_left, sorted_right, output_cols, join_col, None, l.cur + 1,
                 IF NotMark(mark) THEN r.cur ELSE mark, join_output)

(* after the left catch-up (cursor l): the right catch-up *)
MergeRight(sorted_left, sorted_right, output_cols, join_col, mark, l, right_cur, join_output) ==
  IF l.raised # "" THEN Raise(l.raised)
  ELSE MergeMatch(sorted_left, sorted_right, output_cols, join_col, mark, l,
                  IF NotMark(mark)
                  THEN CatchUp(sorted_right, join_col, right_cur,
                               getattr(sorted_left[l.cur + 1], join_col))
                  ELSE Stay(right_cur),
                  join_output)

(* the while loop of the merge phase *)
MergeLoop(sorted_left, sorted_right, output_cols, join_col, mark, left_cur, right_cur, join_output) ==
  IF ~(left_cur < Len(sorted_left) /\ right_cur < Len(sorted_right))
  THEN Ok(join_output)
  ELSE MergeRight(sorted_left, sorted_right, output_cols, join_col, mark,
                  IF NotMark(mark)
                  THEN CatchUp(sorted_left, join_col, left_cur,
                               getattr(sorted_right[right_cur + 1], join_col))
                  ELSE Stay(left_cur),
                  right_cur, join_output)

(* the merge phase on the two sorted inputs *)
MergeSorted(output_cols, join_col, sorted_left, sorted_right) ==
  IF HasDuplicates(output_cols) THEN Raise("ValueError")
  ELSE IF sorted_left.raised # "" THEN Raise(sorted_left.raised)
  ELSE IF sorted_right.raised # "" THEN Raise(sorted_right.raised)
  ELSE MergeLoop(sorted_left.rows, sorted_right.rows, output_cols, join_col, None, 0, 0, <<>>)

_merge_join(left_rows, right_rows, join_col) ==
  MergeSorted(_get_joined_cols(left_rows, right_rows, join_col), join_col,
              _orderby(left_rows, join_col, FALSE), _orderby(right_rows, join_col, FALSE))

(***************************************************************************)
(* The loader: _parse_and_infer_schema and _load_data.                     *)
(*                                                                         *)
(* A file is the sequence of its lines, each with its line end; a file of  *)
(* zero bytes has no line.  The file system maps the names of the files    *)
(* that exist to their content.  cache is data_loaded: a function from the *)
(* names loaded so far to their rows.  reads counts, per name, the times   *)
(* the file was opened and read.                                           *)
(***************************************************************************)
MsgEmptyFile == <<"E", "m", "p", "t", "y", " ", "f", "i", "l", "e">>

MsgNoSuchFile == <<"N", "o", " ", "s", "u", "c", "h", " ", "f", "i", "l", "e", " ", "o", "r", " ", "d", "i", "r", "e", "c", "t", "o", "r", "y">>

(* err.args[1] of a SyntaxError is a tuple, not a str *)
NotAStr == <<"(args[1] of SyntaxError)">>

(* eval(t) of a string of digits is a SyntaxError when a nonzero number is *)
(* written with leading zeros                                              *)
EvalFails(t) == Len(t) > 1 /\ t[1] = "0" /\ \E i \in 1..Len(t) : t[i] # "0"

InferCell(t) == IF isnumeric(t) THEN IntCell(int(t)) ELSE TextCell(t)

_parse_and_infer_schema(row) ==
  LET r == split(rstrip(row), ",")
  IN  IF \E k \in 1..Len(r) : isnumeric(r[k]) /\ EvalFails(r[k])
      THEN [raised |-> "SyntaxError", cells |-> <<>>]
      ELSE [raised |-> "", cells |-> [k \in 1..Len(r) |-> InferCell(r[k])]]

IsLetter(c) == Ord(c) >= Ord("A") /\ ~IsDigit(c) /\ c # "_"

(* the names namedtuple accepts: identifiers that do not start with "_" *)
IsFieldName(name) ==
  /\ name # <<>>
  /\ IsLetter(name[1])
  /\ \A i \in 1..Len(name) : IsLetter(name[i]) \/ IsDigit(name[i]) \/ name[i] = "_"

(* the rows of the file, given its columns and its parsed lines; the first *)
(* line that does not parse or does not fit the columns raises             *)
RowsOf(columns, parsed) ==
  IF HasDuplicates(columns) \/ \E k \in 1..Len(columns) : ~IsFieldName(columns[k])
  THEN Raise("ValueError")
  ELSE IF \E i \in 1..Len(parsed) :
            /\ parsed[i].raised # ""
            /\ \A b \in 1..(i - 1) : Len(parsed[b].cells) = Len(columns)
  THEN Raise("SyntaxError")
  ELSE IF \E i \in 1..Len(parsed) : Len(parsed[i].cells) # Len(columns)
  THEN Raise("TypeError")
  ELSE Ok([i \in 1..Len(parsed) |-> Row(columns, parsed[i].cells)])

(* the with-block of _load_data: header, then one Row per remaining line *)
ReadRows(lines) ==
  RowsOf(split(rstrip(lines[1]), ","),
         [i \in 1..(Len(lines) - 1) |-> _parse_and_infer_schema(lines[i + 1])])

(* the except clause of _load_data returns err.args[1]; a ValueError and a *)
(* TypeError have one argument only, so the clause itself raises           *)
LoadExcept(exc) ==
  IF exc = "SyntaxError" THEN Err(NotAStr) ELSE Raise("IndexError")

(* a membership test that never finds the name *)
CacheHitNever(cache, file_name) == FALSE

CacheHit(cache, file_name) == file_name \in DOMAIN cache

(* an insert that replaces the cache by the one new entry *)
CacheInsertAlone(cache, file_name, data) == [n \in {file_name} |-> data]

CacheInsert(cache, file_name, data) ==
  [n \in DOMAIN cache \cup {file_name} |-> IF n = file_name THEN data ELSE cache[n]]

CountRead(reads, file_name) == [reads EXCEPT ![file_name] = @ + 1]

LoadOutcome(out, cache, reads, opened) ==
  [out |-> out, cache |-> cache, reads |-> reads, opened |-> opened]

(* after the with-block has read data from the file *)
LoadFromFile(cache, reads, file_name, data) ==
  IF data.raised # "" THEN LoadOutcome(LoadExcept(data.raised), cache, reads, TRUE)
  ELSE IF data.rows = <<>> THEN LoadOutcome(Err(MsgEmptyFile), cache, reads, TRUE)
  ELSE LoadOutcome(Ok(data.rows), CacheInsert(cache, file_name, data.rows), reads, TRUE)

(* _load_data: the outcome with the cache and the read counts after it *)
_load_data(fs, cache, reads, file_name) ==
  IF CacheHit(cache, file_name) THEN LoadOutcome(Ok(cache[file_name]), cache, reads, FALSE)
  ELSE IF file_name \notin DOMAIN fs THEN LoadOutcome(Err(MsgNoSuchFile), cache, reads, FALSE)
  ELSE IF fs[file_name] = <<>> THEN LoadOutcome(Err(MsgEmptyFile), cache, reads, FALSE)
  ELSE LoadFromFile(cache, CountRead(reads, file_name), file_name, ReadRows(fs[file_name]))

(***************************************************************************)
(* The parser: _parse_query.                                               *)
(* A step [action, arg] is a record: arg is the str argument (the table of *)
(* a JOIN), col the join column of a JOIN, num the int argument of a TAKE. *)
(***************************************************************************)
kw_FROM == <<"F", "R", "O", "M">>

kw_SELECT == <<"S", "E", "L", "E", "C", "T">>

kw_TAKE == <<"T", "A", "K", "E">>

kw_ORDERBY == <<"O", "R", "D", "E", "R", "B", "Y">>

kw_COUNTBY == <<"C", "O", "U", "N", "T", "B", "Y">>

kw_JOIN == <<"J", "O", "I", "N">>

keywords == {kw_FROM, kw_SELECT, kw_TAKE, kw_ORDERBY, kw_COUNTBY, kw_JOIN}

s_csv == <<".", "c", "s", "v">>

MsgNoQuery == <<"N", "o", " ", "q", "u", "e", "r", "y", " ", "e", "n", "t", "e", "r", "e", "d">>

MsgMissingSource == <<"M", "i", "s", "s", "i", "n", "g", " ", "d", "a", "t", "a", " ", "s", "o", "u", "r", "c", "e">>

MsgInvalidInput == <<"I", "n", "v", "a", "l", "i", "d", " ", "i", "n", "p", "u", "t", " ", "a", "t", " ">>

MsgMissingJoinArg == <<"M", "i", "s", "s", "i", "n", "g", " ", "J", "O", "I", "N", " ", "a", "r", "g", "u", "m", "e", "n", "t", " ", "a", "t", " ">>

MsgMissingJoinTable == <<"M", "i", "s", "s", "i", "n", "g", " ", "J", "O", "I", "N", " ", "t", "a", "b", "l", "e", " ", "a", "t", " ">>

MsgThToken == <<"t", "h", " ", "t", "o", "k", "e", "n">>

MsgMissing == <<"M", "i", "s", "s", "i", "n", "g", " ">>

MsgArgument == <<" ", "a", "r", "g", "u", "m", "e", "n", "t">>

MsgTakeInteger == <<"T", "A", "K", "E", " ", "r", "e", "q", "u", "i", "r", "e", "s", " ", "i", "n", "t", "e", "g", "e", "r", " ", "i", "n", "p", "u", "t">>

(* sub in s *)
IsSubstring(sub, s) ==
  \E i \in 0..(Len(s) - Len(sub)) : SubSeq(s, i + 1, i + Len(sub)) = sub

Step(action, arg, col, num) == [action |-> action, arg |-> arg, col |-> col, num |-> num]

ParseOk(steps) == [raised |-> "", steps |-> steps, err |-> <<>>]

ParseErr(msg) == [raised |-> "", steps |-> <<>>, err |-> msg]

ParseRaise(exc) == [raised |-> exc, steps |-> <<>>, err |-> <<>>]

(* the while loop of _parse_query; act_idx and arg_idx are 0-based *)
RECURSIVE ParseLoop(_, _, _, _)
ParseLoop(tokens, act_idx, arg_idx, query_steps) ==
  IF ~(arg_idx < Len(tokens)) THEN ParseOk(query_steps)
  ELSE
    LET cur_action == tokens[act_idx + 1]
    IN  IF cur_action \notin keywords
        THEN ParseErr(MsgInvalidInput \o StrNat(act_idx + 1) \o MsgThToken)
        ELSE IF cur_action = kw_JOIN
        THEN IF ~(arg_idx + 1 < Len(tokens)) THEN ParseRaise("IndexError")
             ELSE LET arg_1 == tokens[arg_idx + 1]
                      arg_2 == tokens[arg_idx + 2]
                  IN  IF arg_1 \in keywords \/ arg_2 \in keywords
                      THEN ParseErr(MsgMissingJoinArg \o StrNat(act_idx + 1) \o MsgThToken)
                      ELSE IF ~IsSubstring(s_csv, arg_1)
                      THEN ParseErr(MsgMissingJoinTable \o StrNat(act_idx + 1) \o MsgThToken)
                      ELSE ParseLoop(tokens, arg_idx + 2, arg_idx + 3,
                                     Append(query_steps, Step(cur_action, arg_1, arg_2, 0)))
        ELSE LET cur_arg == tokens[arg_idx + 1]
             IN  IF cur_arg \in keywords
                 THEN ParseErr(MsgMissing \o cur_action \o MsgArgument)
                 ELSE IF cur_action = kw_TAKE /\ ~isnumeric(cur_arg)
                 THEN ParseErr(MsgTakeInteger)
                 ELSE ParseLoop(tokens, arg_idx + 1, arg_idx + 2,
                                Append(query_steps,
                                       Step(cur_action, cur_arg, <<>>,
                                            IF cur_action = kw_TAKE THEN int(cur_arg) ELSE 0)))

(* a parser without the test of the first token *)
_parse_queryNoFromTest(query_str) ==
  IF splitws(query_str) = <<>> THEN ParseErr(MsgNoQuery)
  ELSE ParseLoop(splitws(query_str), 0, 1, <<>>)

_parse_query(query_str) ==
  LET tokens == splitws(query_str)
  IN  IF tokens = <<>> THEN ParseErr(MsgNoQuery)
      ELSE IF tokens[1] # kw_FROM THEN ParseErr(MsgMissingSource)
      ELSE ParseLoop(tokens, 0, 1, <<>>)

(***************************************************************************)
(* Rendering: _rows_to_string.                                             *)
(***************************************************************************)
MsgNoData == <<"N", "o", " ", "d", "a", "t", "a", " ", "r", "e", "t", "u", "r", "n", "e", "d", ".">>

RowLine(values) == join(<<",">>, values) \o <<"\n">>

RECURSIVE RowLines(_)
RowLines(rows) ==
  IF rows = <<>> THEN <<>>
  ELSE RowLine([k \in 1..Len(rows[1].v) |-> CellStr(rows[1].v[k])]) \o RowLines(Tail(rows))

_rows_to_string(rows) ==
  IF rows = <<>> THEN MsgNoData
  ELSE RowLine(rows[1].f) \o RowLines(rows)

(***************************************************************************)
(* The executor: _join and run_query.                                      *)
(*                                                                         *)
(* Beside what run_query returns or raises and the cache it leaves, the    *)
(* outcome records what happened on the way:                               *)
(*   executed  the indices of the steps whose operation was called         *)
(*             (0 is the load of the FROM source)                          *)
(*   loads     one entry per call of _load_data: the name, whether the     *)
(*             file was opened, the rows returned                          *)
(*   failed    the index of the step that met an error condition of the    *)
(*             design (NoStep when none did), and fault, that condition    *)
(***************************************************************************)
NoStep == -1

LoadEvent(file_name, l) == [name |-> file_name, opened |-> l.opened, rows |-> l.out.rows]

(* _join after the load l of the right table *)
JoinLoaded(left_rows, table, join_col, l) ==
  [out |-> IF l.out.raised # "" \/ l.out.rows = <<>> THEN l.out
           ELSE _hash_join(left_rows, l.out.rows, join_col),
   cache |-> l.cache, reads |-> l.reads, event |-> LoadEvent(table, l)]

(* _join with join_fcn = self._hash_join, as run_query calls it *)
_join(fs, cache, reads, left_rows, table, join_col) ==
  JoinLoaded(left_rows, table, join_col, _load_data(fs, cache, reads, table))

(* the error condition a step meets on its input, "" when it meets none *)
ColumnsFault(rows, colsArg) ==
  IF \E c \in {split(rstrip(colsArg), ",")[k] : k \in 1..Len(split(rstrip(colsArg), ","))} :
       ~HasField(rows[1], c)
  THEN "UnknownColumn" ELSE ""

JoinFault(left_rows, right_rows, join_col) ==
  IF right_rows = <<>> THEN "SourceError"
  ELSE IF ~HasField(left_rows[1], join_col) \/ ~HasField(right_rows[1], join_col)
  THEN "UnknownColumn"
  ELSE IF \E k \in 1..Len(right_rows[1].f) :
            right_rows[1].f[k] # join_col /\ HasField(left_rows[1], right_rows[1].f[k])
  THEN "SchemaConflict"
  ELSE ""

Returned(val, cache, reads, g) ==
  [raised |-> "", val |-> val, cache |-> cache, reads |-> reads,
   executed |-> g.executed, loads |-> g.loads, failed |-> g.failed, fault |-> g.fault]

Raised(exc, cache, reads, g) ==
  [raised |-> exc, val |-> <<>>, cache |-> cache, reads |-> reads,
   executed |-> g.executed, loads |-> g.loads, failed |-> g.failed, fault |-> g.fault]

Ran(g, i, fault) ==
  [g EXCEPT !.executed = Append(@, i),
            !.failed = IF fault # "" /\ g.failed = NoStep THEN i ELSE @,
            !.fault = IF fault # "" /\ g.failed = NoStep THEN fault ELSE @]

NoGhost == [executed |-> <<>>, loads |-> <<>>, failed |-> NoStep, fault |-> ""]

RECURSIVE RunLoop(_, _, _, _, _, _, _)

(* after a step whose result r is tested: "if not rows: return err" *)
StepTested(fs, query_steps, i, cache, reads, g, r) ==
  IF r.raised # "" THEN Raised(r.raised, cache, reads, g)
  ELSE IF r.rows = <<>> THEN Returned(r.err, cache, reads, g)
  ELSE RunLoop(fs, query_steps, i + 1, r.rows, cache, reads, g)

(* an ORDERBY that sorts in place, rows.sort(...): rows is the list the    *)
(* cache holds for the FROM source, so the cached relation is reordered    *)
StepUntestedInPlace(fs, query_steps, i, cache, reads, g, r) ==
  IF r.raised # "" THEN Raised(r.raised, cache, reads, g)
  ELSE RunLoop(fs, query_steps, i + 1, r.rows,
               IF query_steps[i + 1].action = kw_ORDERBY
               THEN [cache EXCEPT ![query_steps[1].arg] = r.rows] ELSE cache,
               reads, g)

(* after a step whose result r is not tested *)
StepUntested(fs, query_steps, i, cache, reads, g, r) ==
  IF r.raised # "" THEN Raised(r.raised, cache, reads, g)
  ELSE RunLoop(fs, query_steps, i + 1, r.rows, cache, reads, g)

(* after the JOIN step, j being what _join left *)
StepJoined(fs, query_steps, i, rows, g, j) ==
  StepTested(fs, query_steps, i, j.cache, j.reads,
             [Ran(g, i, JoinFault(rows, j.event.rows, query_steps[i + 1].col))
                EXCEPT !.loads = Append(@, j.event)],
             j.out)

(* the for loop of run_query from step i on (i is 0-based, step 0 is FROM) *)
RunLoop(fs, query_steps, i, rows, cache, reads, g) ==
  IF ~(i < Len(query_steps)) \/ rows = <<>>
  THEN Returned(_rows_to_string(rows), cache, reads, g)
  ELSE IF query_steps[i + 1].action = kw_SELECT
  THEN StepTested(fs, query_steps, i, cache, reads,
                  Ran(g, i, ColumnsFault(rows, query_steps[i + 1].arg)),
                  _select(rows, query_steps[i + 1].arg))
  ELSE IF query_steps[i + 1].action = kw_TAKE
  THEN RunLoop(fs, query_steps, i + 1, _take(rows, query_steps[i + 1].num),
               cache, reads, Ran(g, i, ""))
  ELSE IF query_steps[i + 1].action = kw_ORDERBY
  THEN StepUntested(fs, query_steps, i, cache, reads,
                    Ran(g, i, ColumnsFault(rows, query_steps[i + 1].arg)),
                    _orderby(rows, query_steps[i + 1].arg, TRUE))
  ELSE IF query_steps[i + 1].action = kw_COUNTBY
  THEN StepUntested(fs, query_steps, i, cache, reads,
                    Ran(g, i, ColumnsFault(rows, query_steps[i + 1].arg)),
                    _countby(rows, query_steps[i + 1].arg))
  ELSE IF query_steps[i + 1].action = kw_JOIN
  THEN StepJoined(fs, query_steps, i, rows, g,
                  _join(fs, cache, reads, rows, query_steps[i + 1].arg, query_steps[i + 1].col))
  ELSE RunLoop(fs, query_steps, i + 1, rows, cache, reads, g)

(* run_query after the load l of the FROM source *)
RunLoaded(fs, query_steps, l) ==
  StepTested(fs, query_steps, 0, l.cache, l.reads,
             [Ran(NoGhost, 0, IF l.out.rows = <<>> THEN "SourceError" ELSE "")
                EXCEPT !.loads = <<LoadEvent(query_steps[1].arg, l)>>],
             l.out)

(* run_query after _parse_query returned p *)
RunParsed(fs, cache, reads, p) ==
  IF p.raised # "" THEN Raised(p.raised, cache, reads, NoGhost)
  ELSE IF p.steps = <<>> THEN Returned(p.err, cache, reads, NoGhost)
  ELSE RunLoaded(fs, p.steps, _load_data(fs, cache, reads, p.steps[1].arg))

run_query(fs, cache, reads, query_str) ==
  RunParsed(fs, cache, reads, _parse_query(query_str))

(***************************************************************************)
(* Message framing (utils.py).  A bytes object is a sequence of naturals   *)
(* below 256.  The module config that utils.py imports holds HEADER_SIZE,  *)
(* BYTE_ORDER and ENCODING; the docstrings of send_msg and make_msg give   *)
(* a 4-byte big-endian header, and the encoding is taken to be UTF-8.      *)
(***************************************************************************)
HEADER_SIZE == 4

BYTE_ORDER == "big"

ENCODING == "utf-8"

(* characters outside Alphabet, each written as one token: the escape      *)
(* character and the brackets of the error message of receive_msg, and two *)
(* characters beyond ASCII (e with acute accent, the euro sign)            *)
c_esc == "U+001B"

c_eacute == "U+00E9"

c_euro == "U+20AC"

WideChars == {c_eacute, c_euro}

(* the code point of a character *)
CodePoint(c) ==
  IF c = c_esc THEN 27
  ELSE IF c = c_eacute THEN 233
  ELSE IF c = c_euro THEN 8364
  ELSE IF c = "[" THEN 91
  ELSE IF c = "]" THEN 93
  ELSE IF c = "\t" THEN 9
  ELSE IF c = "\n" THEN 10
  ELSE IF c = " " THEN 32
  ELSE IF c = "," THEN 44
  ELSE IF c = "-" THEN 45
  ELSE IF c = "." THEN 46
  ELSE IF c = "_" THEN 95
  ELSE IF IsDigit(c) THEN 48 + DigitVal(c)
  ELSE IF Ord(c) < Ord("_") THEN 65 + (Ord(c) - Ord("A"))
  ELSE 97 + (Ord(c) - Ord("a"))

KnownChars == {Alphabet[i] : i \in 1..Len(Alphabet)} \cup WideChars \cup {c_esc, "[", "]"}

(* the character of a code point; code points the model has no character   *)
(* for are all shown as one token                                          *)
CharOf(cp) ==
  IF \E c \in KnownChars : CodePoint(c) = cp
  THEN CHOOSE c \in KnownChars : CodePoint(c) = cp
  ELSE "U+other"

(* int.to_bytes(size, byte_order) *)
RECURSIVE to_bytes_big(_, _)
to_bytes_big(n, size) ==
  IF size = 0 THEN <<>> ELSE to_bytes_big(n \div 256, size - 1) \o <<n % 256>>

RECURSIVE reversed(_)
reversed(seq) == IF seq = <<>> THEN <<>> ELSE reversed(Tail(seq)) \o <<Head(seq)>>

to_bytes(n, size, byte_order) ==
  IF byte_order = "big" THEN to_bytes_big(n, size) ELSE reversed(to_bytes_big(n, size))

(* int.from_bytes(bytes, byte_order) *)
RECURSIVE from_bytes_big(_)
from_bytes_big(bs) ==
  IF bs = <<>> THEN 0 ELSE 256 * from_bytes_big(SubSeq(bs, 1, Len(bs) - 1)) + bs[Len(bs)]

from_bytes(bs, byte_order) ==
  IF byte_order = "big" THEN from_bytes_big(bs) ELSE from_bytes_big(reversed(bs))

(* the UTF-8 bytes of one code point (below 65536) *)
Utf8(cp) ==
  IF cp < 128 THEN <<cp>>
  ELSE IF cp < 2048 THEN <<192 + (cp \div 64), 128 + (cp % 64)>>
  ELSE <<224 + (cp \div 4096), 128 + ((cp \div 64) % 64), 128 + (cp % 64)>>

(* str.encode(encoding) *)
RECURSIVE encode(_)
encode(body) == IF body = <<>> THEN <<>> ELSE Utf8(CodePoint(Head(body))) \o encode(Tail(body))

IsContinuation(bs, i) == i <= Len(bs) /\ bs[i] >= 128 /\ bs[i] < 192

(* bytes.decode(encoding) from byte i on, the characters before it in acc; *)
(* a byte that starts no sequence, or a sequence cut short, raises         *)
RECURSIVE DecodeFrom(_, _, _)
DecodeFrom(bs, i, acc) ==
  IF i > Len(bs) THEN [raised |-> "", s |-> acc]
  ELSE IF bs[i] < 128 THEN DecodeFrom(bs, i + 1, Append(acc, CharOf(bs[i])))
  ELSE IF bs[i] >= 194 /\ bs[i] < 224 /\ IsContinuation(bs, i + 1)
    THEN DecodeFrom(bs, i + 2, Append(acc, CharOf((bs[i] - 192) * 64 + (bs[i + 1] - 128))))
  ELSE IF bs[i] >= 224 /\ bs[i] < 240 /\ IsContinuation(bs, i + 1) /\ IsContinuation(bs, i + 2)
    THEN DecodeFrom(bs, i + 3,
                    Append(acc, CharOf((bs[i] - 224) * 4096 + (bs[i + 1] - 128) * 64
                                       + (bs[i + 2] - 128))))
  ELSE [raised |-> "UnicodeDecodeError", s |-> <<>>]

decode(bs) == DecodeFrom(bs, 1, <<>>)

(* make_msg: the header is made from len(body) of the str, before the body *)
(* is encoded                                                              *)
make_msg(body) == to_bytes(Len(body), HEADER_SIZE, BYTE_ORDER) \o encode(body)

(* the message receive_msg returns when the header is short *)
MsgFailedRead ==
  <<c_esc, "[", "9", "1", "m", "[", "E", "R", "R", "O", "R", "]", " ",
    "F", "a", "i", "l", "e", "d", " ", "t", "o", " ", "r", "e", "a", "d", " ",
    "m", "e", "s", "s", "a", "g", "e", ".", c_esc, "[", "0", "m">>

(* receive_msg has not returned *)
NotReceived == [raised |-> "NotRun", msg |-> <<>>, status |-> 0]

(* what receive_msg returns, or raises, once receive_n_bytes gave it the   *)
(* bytes of the body                                                       *)
ReceivedBody(bs) ==
  IF decode(bs).raised # ""
  THEN [raised |-> decode(bs).raised, msg |-> <<>>, status |-> 0]
  ELSE [raised |-> "", msg |-> decode(bs).s, status |-> 0]

(* what receive_msg returns when receive_n_bytes gave it a short header *)
ReceivedNoHeader == [raised |-> "", msg |-> MsgFailedRead, status |-> 1]

(***************************************************************************)
(* State.                                                                  *)
(*   data_loaded   the cache of the QueryRunner                            *)
(*   reads         per file name, the times the file was opened and read   *)
(*   query_str     the query run_query was last called with                *)
(*   result        what that call returned (val) or raised                 *)
(*   trace         what that call did: executed, loads, failed, fault      *)
(*   previous      the result of the call before it                        *)
(*   served        the number of calls of run_query so far                 *)
(*   left_rows, right_rows   the relations handed to an operator           *)
(*   num_rows                the argument of _take                         *)
(*   take_out, hash_out, merge_out   what _take, _hash_join and            *)
(*                           _merge_join returned for them                 *)
(*   sel_cols, select_out    the argument of _select and what it returned  *)
(*   sort_col, sort_desc, sort_out    the arguments of _orderby and what   *)
(*                           it returned                                   *)
(*   group_in, group_col, group_out   the arguments of _countby and what   *)
(*                           it returned                                   *)
(*   cell_text, inferred, load_out    the text of a cell of a data line,   *)
(*                           what _parse_and_infer_schema made of the line *)
(*                           and what _load_data returned for the file     *)
(*   srv_pc, srv_err         where the server is (accept, receive, or      *)
(*                           crashed) and the exception that ended it      *)
(*   conn                    the client's end of the connection            *)
(*   sent                    the bodies the client has passed to send_msg  *)
(*   wire                    the bytes sent to the server and not yet      *)
(*                           returned by recv                              *)
(*   rx_pc, rx_need, rx_data, rx_out   the call of receive_msg: the part   *)
(*                           it reads, n_bytes and data of                 *)
(*                           receive_n_bytes, and what it returned         *)
(*   heard                   the messages the server has printed           *)
(*   outbox                  the bytes the server has sent to the client   *)
(*   pc, file_name, data, calls   per thread calling _load_data: the line  *)
(*                           it is at, its argument, its local variable    *)
(*                           data, the number of calls it has made         *)
(***************************************************************************)
VARIABLES data_loaded, reads, query_str, result, trace, previous, served,
          left_rows, right_rows, num_rows, take_out, hash_out, merge_out,
          sel_cols, select_out, sort_col, sort_desc, sort_out,
          group_in, group_col, group_out,
          cell_text, inferred, load_out,
          srv_pc, srv_err, conn, sent, wire, rx_pc, rx_need, rx_data, rx_out,
          heard, outbox,
          pc, file_name, data, calls

engineVars == <<data_loaded, reads, query_str, result, trace, previous, served>>

unaryVars == <<sel_cols, select_out, sort_col, sort_desc, sort_out,
               group_in, group_col, group_out>>

inferVars == <<cell_text, inferred, load_out>>

rxVars == <<rx_pc, rx_need, rx_data, rx_out>>

netVars == <<srv_pc, srv_err, conn, sent, wire, rxVars, heard, outbox>>

extraVars == <<inferVars, netVars>>

opVars == <<left_rows, right_rows, num_rows, take_out, hash_out, merge_out, unaryVars,
            extraVars>>

threadVars == <<pc, file_name, data, calls>>

queryVars == <<query_str, result, trace, previous, served>>

vars == <<engineVars, opVars, threadVars>>

(* the operation has not been called *)
NotRun == [raised |-> "NotRun", rows |-> <<>>, err |-> <<>>]

s_id == <<"i", "d">>

s_name == <<"n", "a", "m", "e">>

s_score == <<"s", "c", "o", "r", "e">>

(* join values: two int values and one str value *)
KeyCells == {IntCell(1), IntCell(2), TextCell(<<"a">>)}

Letters == <<"x", "y", "z", "w", "v", "u">>

(* left relations: id,name rows; the name tells the rows apart *)
LeftRelations ==
  UNION {{[i \in 1..n |-> Row(<<s_id, s_name>>, <<ks[i], TextCell(<<Letters[i]>>)>>)] :
            ks \in [1..n -> KeyCells]} : n \in 1..MaxRows}

(* right relations: id,score rows; the score tells the rows apart *)
RightRelations ==
  UNION {{[i \in 1..n |-> Row(<<s_id, s_score>>, <<ks[i], IntCell(10 * i)>>)] :
            ks \in [1..n -> KeyCells]} : n \in 1..MaxRows}

(***************************************************************************)
(* The files and the queries of the model.                                 *)
(***************************************************************************)
f_a == <<"a", ".", "c", "s", "v">>

f_b == <<"b", ".", "c", "s", "v">>

f_c == <<"c", ".", "c", "s", "v">>

f_hdr == <<"h", "d", "r", ".", "c", "s", "v">>

f_empty == <<"e", "m", "p", "t", "y", ".", "c", "s", "v">>

f_missing == <<"m", "i", "s", "s", "i", "n", "g", ".", "c", "s", "v">>

s_zz == <<"z", "z">>

FileNames == {f_a, f_b, f_c, f_hdr, f_empty, f_missing}

(* a.csv and b.csv are the sources of the examples; c.csv shares the name  *)
(* column with a.csv and no id with b.csv; hdr.csv has a header and no     *)
(* row; empty.csv has zero bytes; missing.csv does not exist               *)
Files ==
  (f_a :> <<<<"i", "d", ",", "n", "a", "m", "e", "\n">>, <<"1", ",", "x", "\n">>, <<"2", ",", "y", "\n">>, <<"1", ",", "z", "\n">>>>)
  @@ (f_b :> <<<<"i", "d", ",", "s", "c", "o", "r", "e", "\n">>, <<"1", ",", "1", "0", "\n">>, <<"1", ",", "2", "0", "\n">>, <<"2", ",", "3", "0", "\n">>>>)
  @@ (f_c :> <<<<"i", "d", ",", "n", "a", "m", "e", "\n">>, <<"3", ",", "q", "\n">>>>)
  @@ (f_hdr :> <<<<"i", "d", ",", "n", "a", "m", "e", "\n">>>>)
  @@ (f_empty :> <<>>)

Q(tokens) == join(<<" ">>, tokens)

Queries ==
  { Q(<<kw_FROM, f_a>>),
    Q(<<kw_FROM, f_b, kw_ORDERBY, s_score, kw_TAKE, <<"2">>>>),
    Q(<<kw_FROM, f_a, kw_COUNTBY, s_id>>),
    Q(<<kw_FROM, f_a, kw_SELECT, s_name \o <<",">> \o s_id>>),
    Q(<<kw_FROM, f_a, kw_JOIN, f_b, s_id>>),
    Q(<<kw_FROM, f_b, kw_JOIN, f_a, s_id, kw_TAKE, <<"1">>>>),
    Q(<<kw_FROM, f_b, kw_SELECT, s_id, kw_JOIN, f_b, s_id>>),
    Q(<<kw_FROM, f_c, kw_JOIN, f_b, s_id, kw_TAKE, <<"1">>>>),
    Q(<<kw_FROM, f_a, kw_JOIN, f_c, s_id>>),
    Q(<<kw_FROM, f_a, kw_JOIN, f_b, s_score>>),
    Q(<<kw_FROM, f_a, kw_JOIN, f_b, s_name>>),
    Q(<<kw_FROM, f_a, kw_JOIN, f_missing, s_id, kw_TAKE, <<"1">>>>),
    Q(<<kw_FROM, f_a, kw_JOIN, f_hdr, s_id>>),
    Q(<<kw_FROM, f_a, kw_ORDERBY, s_zz, kw_TAKE, <<"1">>>>),
    Q(<<kw_FROM, f_a, kw_COUNTBY, s_zz>>),
    Q(<<kw_FROM, f_a, kw_SELECT, s_zz, kw_TAKE, <<"1">>>>),
    Q(<<kw_FROM, f_a, kw_TAKE, <<"0">>, kw_SELECT, s_zz>>),
    Q(<<kw_FROM, f_missing, kw_TAKE, <<"1">>>>),
    Q(<<kw_FROM, f_empty>>),
    Q(<<kw_FROM, f_hdr, kw_SELECT, s_id>>),
    Q(<<kw_SELECT, s_name>>),
    Q(<<kw_FROM, f_a, kw_TAKE, <<"-", "1">>>>),
    Q(<<kw_FROM, f_a, kw_SELECT, s_name, kw_TAKE, <<"-", "1">>>>),
    Q(<<kw_FROM, f_a, kw_TAKE, <<"0">>>>),
    Q(<<kw_FROM, f_a, kw_TAKE, <<"x">>>>),
    Q(<<kw_FROM, f_a, kw_SELECT, s_name \o <<",">> \o s_name>>),
    Q(<<kw_FROM, f_a, kw_COUNTBY, s_id, kw_COUNTBY, s_count>>),
    Q(<<>>),
    Q(<<kw_FROM>>),
    Q(<<kw_FROM, kw_SELECT>>),
    Q(<<kw_FROM, f_a, kw_SELECT>>),
    Q(<<kw_FROM, f_a, kw_JOIN, f_b>>),
    Q(<<kw_FROM, f_a, kw_JOIN, s_zz, s_id>>),
    Q(<<kw_FROM, f_a, s_zz, s_id>>),
    Q(<<kw_FROM, f_b>>) }

(***************************************************************************)
(* The engine: one QueryRunner serving queries one after the other.        *)
(***************************************************************************)
NoResult == [raised |-> "", val |-> <<>>]

NoCache == [n \in {} |-> <<>>]

NoReads == [n \in FileNames |-> 0]

IdleUnary ==
  /\ sel_cols = <<>>
  /\ select_out = NotRun
  /\ sort_col = <<>>
  /\ sort_desc = FALSE
  /\ sort_out = NotRun
  /\ group_in = <<>>
  /\ group_col = <<>>
  /\ group_out = NotRun

NotInferred == [raised |-> "NotRun", cells |-> <<>>]

IdleInfer ==
  /\ cell_text = <<>>
  /\ inferred = NotInferred
  /\ load_out = NotRun

IdleNet ==
  /\ srv_pc = "off"
  /\ srv_err = ""
  /\ conn = "none"
  /\ sent = <<>>
  /\ wire = <<>>
  /\ rx_pc = "idle"
  /\ rx_need = 0
  /\ rx_data = <<>>
  /\ rx_out = NotReceived
  /\ heard = <<>>
  /\ outbox = <<>>

IdleExtra == IdleInfer /\ IdleNet

IdleOps ==
  /\ left_rows = <<>>
  /\ right_rows = <<>>
  /\ num_rows = 0
  /\ take_out = NotRun
  /\ hash_out = NotRun
  /\ merge_out = NotRun
  /\ IdleUnary
  /\ IdleExtra

Threads == {1, 2}

IdleThreads ==
  /\ pc = [t \in Threads |-> "idle"]
  /\ file_name = [t \in Threads |-> <<>>]
  /\ data = [t \in Threads |-> <<>>]
  /\ calls = [t \in Threads |-> 0]

Init ==
  /\ IdleThreads
  /\ data_loaded = NoCache
  /\ reads = NoReads
  /\ query_str = <<>>
  /\ result = NoResult
  /\ trace = NoGhost
  /\ previous = NoResult
  /\ served = 0
  /\ IdleOps

(* the state after run_query(q) ended with outcome r *)
Served(q, r) ==
  /\ data_loaded' = r.cache
  /\ reads' = r.reads
  /\ result' = [raised |-> r.raised, val |-> r.val]
  /\ trace' = [executed |-> r.executed, loads |-> r.loads,
               failed |-> r.failed, fault |-> r.fault]
  /\ query_str' = q
  /\ previous' = result
  /\ served' = served + 1
  /\ UNCHANGED <<opVars, threadVars>>

RunQuery(q) ==
  /\ served < MaxQueries
  /\ Served(q, run_query(Files, data_loaded, reads, q))

Next == \E q \in Queries : RunQuery(q)

Spec == Init /\ [][Next]_vars


(***************************************************************************)
(* The operators applied to relations drawn from bounded sets.             *)
(***************************************************************************)
InitOps ==
  /\ left_rows \in LeftRelations
  /\ right_rows \in RightRelations
  /\ num_rows = 0
  /\ take_out = NotRun
  /\ hash_out = NotRun
  /\ merge_out = NotRun
  /\ IdleUnary
  /\ IdleExtra
  /\ data_loaded = NoCache
  /\ reads = NoReads
  /\ query_str = <<>>
  /\ result = NoResult
  /\ trace = NoGhost
  /\ previous = NoResult
  /\ served = 0
  /\ IdleThreads

DoTake ==
  /\ take_out = NotRun /\ hash_out = NotRun /\ merge_out = NotRun
  /\ \E n \in (0 - MaxTake)..MaxTake :
       /\ num_rows' = n
       /\ take_out' = Ok(_take(left_rows, n))
  /\ UNCHANGED <<left_rows, right_rows, hash_out, merge_out, unaryVars, engineVars, threadVars,
                 extraVars>>

DoHashJoin ==
  /\ take_out = NotRun /\ hash_out = NotRun
  /\ hash_out' = _hash_join(left_rows, right_rows, s_id)
  /\ UNCHANGED <<left_rows, right_rows, num_rows, take_out, merge_out, unaryVars, engineVars,
                 threadVars, extraVars>>

DoMergeJoin ==
  /\ take_out = NotRun /\ merge_out = NotRun
  /\ merge_out' = _merge_join(left_rows, right_rows, s_id)
  /\ UNCHANGED <<left_rows, right_rows, num_rows, take_out, hash_out, unaryVars, engineVars,
                 threadVars, extraVars>>

NextOps == DoTake \/ DoHashJoin \/ DoMergeJoin

SpecOps == InitOps /\ [][NextOps]_vars

(***************************************************************************)
(* The operators of one relation (_select, _take, _orderby, _countby)      *)
(* applied to relations drawn from a bounded set.  _countby is also        *)
(* applied to what _countby returned, a relation with a count column.      *)
(***************************************************************************)
InitUnary ==
  /\ left_rows \in LeftRelations
  /\ right_rows = <<>>
  /\ num_rows = 0
  /\ take_out = NotRun
  /\ hash_out = NotRun
  /\ merge_out = NotRun
  /\ IdleUnary
  /\ IdleExtra
  /\ data_loaded = NoCache
  /\ reads = NoReads
  /\ query_str = <<>>
  /\ result = NoResult
  /\ trace = NoGhost
  /\ previous = NoResult
  /\ served = 0
  /\ IdleThreads

(* the arguments SELECT is given: one name, both names in either order,    *)
(* a name twice, a name that is no column                                  *)
SelectArgs ==
  { s_id, s_name, s_id \o <<",">> \o s_name, s_name \o <<",">> \o s_id,
    s_name \o <<",">> \o s_name, s_id \o <<",">> \o s_name \o <<",">> \o s_id,
    s_zz, s_name \o <<",">> \o s_zz }

DoSelect ==
  /\ select_out = NotRun /\ sort_out = NotRun /\ group_out = NotRun
  /\ hash_out = NotRun /\ merge_out = NotRun
  /\ \E c \in SelectArgs :
       /\ sel_cols' = c
       /\ select_out' = _select(left_rows, c)
  /\ UNCHANGED <<left_rows, right_rows, num_rows, take_out, hash_out, merge_out,
                 sort_col, sort_desc, sort_out, group_in, group_col, group_out,
                 engineVars, threadVars, extraVars>>

DoOrderBy ==
  /\ take_out = NotRun /\ select_out = NotRun /\ sort_out = NotRun /\ group_out = NotRun
  /\ hash_out = NotRun /\ merge_out = NotRun
  /\ \E c \in {s_id, s_name, s_zz}, d \in BOOLEAN :
       /\ sort_col' = c
       /\ sort_desc' = d
       /\ sort_out' = _orderby(left_rows, c, d)
  /\ UNCHANGED <<left_rows, right_rows, num_rows, take_out, hash_out, merge_out,
                 sel_cols, select_out, group_in, group_col, group_out,
                 engineVars, threadVars, extraVars>>

(* _countby of the relation, or of what _countby made of it *)
CountInput == IF group_out = NotRun THEN left_rows ELSE group_out.rows

DoCountBy ==
  /\ take_out = NotRun /\ select_out = NotRun /\ sort_out = NotRun
  /\ hash_out = NotRun /\ merge_out = NotRun
  /\ group_in \in {<<>>, left_rows}
  /\ CountInput # <<>>
  /\ \E c \in {s_id, s_name, s_count, s_zz} :
       /\ group_in' = CountInput
       /\ group_col' = c
       /\ group_out' = _countby(CountInput, c)
  /\ UNCHANGED <<left_rows, right_rows, num_rows, take_out, hash_out, merge_out,
                 sel_cols, select_out, sort_col, sort_desc, sort_out,
                 engineVars, threadVars, extraVars>>

NextUnary == DoTake \/ DoSelect \/ DoOrderBy \/ DoCountBy

SpecUnary == InitUnary /\ [][NextUnary]_vars

(***************************************************************************)
(* The loader applied to a file with the header v and one data line that   *)
(* holds one cell, its text drawn from a bounded set.                      *)
(***************************************************************************)
(* the characters of the cell texts: digits, a sign, a point, a letter *)
CellChars == {"0", "7", "-", ".", "a"}

(* the texts of up to MaxCell characters, the empty text included *)
CellTexts == UNION {[1..n -> CellChars] : n \in 0..MaxCell}

s_v == <<"v">>

(* the file: the header line and the line of the cell *)
CellFile(text) == (f_a :> <<s_v \o <<"\n">>, text \o <<"\n">>>>)

InitInfer ==
  /\ cell_text \in CellTexts
  /\ inferred = NotInferred
  /\ load_out = NotRun
  /\ IdleNet
  /\ left_rows = <<>>
  /\ right_rows = <<>>
  /\ num_rows = 0
  /\ take_out = NotRun
  /\ hash_out = NotRun
  /\ merge_out = NotRun
  /\ IdleUnary
  /\ data_loaded = NoCache
  /\ reads = NoReads
  /\ query_str = <<>>
  /\ result = NoResult
  /\ trace = NoGhost
  /\ previous = NoResult
  /\ served = 0
  /\ IdleThreads

(* the data line is parsed and the file is loaded by a fresh QueryRunner *)
InferLoad ==
  /\ load_out = NotRun
  /\ inferred' = _parse_and_infer_schema(cell_text \o <<"\n">>)
  /\ load_out' = _load_data(CellFile(cell_text), NoCache, NoReads, f_a).out
  /\ UNCHANGED <<cell_text, left_rows, right_rows, num_rows, take_out, hash_out, merge_out,
                 unaryVars, engineVars, threadVars, netVars>>

NextInfer == InferLoad

SpecInfer == InitInfer /\ [][NextInfer]_vars

(***************************************************************************)
(* receive_msg reading a connection (utils.py), one action per call of     *)
(* recv and per line that follows a call of receive_n_bytes.               *)
(***************************************************************************)
(* the state in which receive_msg is called *)
StartReceive ==
  /\ rx_pc' = "header"
  /\ rx_need' = HEADER_SIZE
  /\ rx_data' = <<>>
  /\ rx_out' = NotReceived

(* conn.recv(n_bytes) returns at least one and at most n_bytes of the      *)
(* bytes that have arrived, as many as the transport chooses               *)
Recv ==
  /\ srv_pc = "receive"
  /\ rx_pc \in {"header", "body"}
  /\ rx_need > 0
  /\ wire # <<>>
  /\ \E k \in 1..Min(rx_need, Len(wire)) :
       /\ rx_data' = rx_data \o SubSeq(wire, 1, k)
       /\ rx_need' = rx_need - k
       /\ wire' = SubSeq(wire, k + 1, Len(wire))
  /\ UNCHANGED <<rx_pc, rx_out, srv_pc, srv_err, conn, sent, heard, outbox,
                 left_rows, right_rows, num_rows, take_out, hash_out, merge_out,
                 unaryVars, inferVars, engineVars, threadVars>>

(* conn.recv returns no bytes, the peer having closed: receive_n_bytes     *)
(* breaks and returns what it has; receive_msg reports a short header, or  *)
(* decodes the short body                                                  *)
RecvEof ==
  /\ srv_pc = "receive"
  /\ rx_pc \in {"header", "body"}
  /\ rx_need > 0
  /\ wire = <<>>
  /\ conn = "dropped"
  /\ rx_out' = IF rx_pc = "header" THEN ReceivedNoHeader ELSE ReceivedBody(rx_data)
  /\ rx_pc' = "done"
  /\ UNCHANGED <<rx_need, rx_data, wire, srv_pc, srv_err, conn, sent, heard, outbox,
                 left_rows, right_rows, num_rows, take_out, hash_out, merge_out,
                 unaryVars, inferVars, engineVars, threadVars>>

(* the header is complete: n_bytes is read from it *)
HeaderRead ==
  /\ srv_pc = "receive"
  /\ rx_pc = "header"
  /\ rx_need = 0
  /\ rx_need' = from_bytes(rx_data, BYTE_ORDER)
  /\ rx_data' = <<>>
  /\ rx_pc' = "body"
  /\ UNCHANGED <<rx_out, wire, srv_pc, srv_err, conn, sent, heard, outbox,
                 left_rows, right_rows, num_rows, take_out, hash_out, merge_out,
                 unaryVars, inferVars, engineVars, threadVars>>

(* n_bytes of the body are read: they are decoded and returned *)
BodyRead ==
  /\ srv_pc = "receive"
  /\ rx_pc = "body"
  /\ rx_need = 0
  /\ rx_out' = ReceivedBody(rx_data)
  /\ rx_pc' = "done"
  /\ UNCHANGED <<rx_need, rx_data, wire, srv_pc, srv_err, conn, sent, heard, outbox,
                 left_rows, right_rows, num_rows, take_out, hash_out, merge_out,
                 unaryVars, inferVars, engineVars, threadVars>>

(* the engine and the operators at rest *)
IdleEngine ==
  /\ data_loaded = NoCache
  /\ reads = NoReads
  /\ query_str = <<>>
  /\ result = NoResult
  /\ trace = NoGhost
  /\ previous = NoResult
  /\ served = 0
  /\ left_rows = <<>>
  /\ right_rows = <<>>
  /\ num_rows = 0
  /\ take_out = NotRun
  /\ hash_out = NotRun
  /\ merge_out = NotRun
  /\ IdleUnary
  /\ IdleInfer
  /\ IdleThreads

(***************************************************************************)
(* One message framed by make_msg, followed by a second one, read by one   *)
(* call of receive_msg, the bytes arriving in any chunking.                *)
(***************************************************************************)
(* the characters of the bodies: two of one byte, one of two, one of three *)
BodyChars == {"a", ",", c_eacute, c_euro}

Bodies == UNION {[1..n -> BodyChars] : n \in 0..MaxBody}

(* the body of the message that follows *)
NextBody == <<"o", "k">>

InitFraming ==
  /\ IdleEngine
  /\ srv_pc = "receive"
  /\ srv_err = ""
  /\ conn = "open"
  /\ sent \in {<<b, NextBody>> : b \in Bodies}
  /\ wire = make_msg(sent[1]) \o make_msg(sent[2])
  /\ rx_pc = "header"
  /\ rx_need = HEADER_SIZE
  /\ rx_data = <<>>
  /\ rx_out = NotReceived
  /\ heard = <<>>
  /\ outbox = <<>>

NextFraming == Recv \/ HeaderRead \/ BodyRead

SpecFraming == InitFraming /\ [][NextFraming]_vars

(***************************************************************************)
(* The server (server.py) and a client (query_runner_client.py): the       *)
(* server owns one QueryRunner, accepts a connection and loops on          *)
(* receive_msg; the client sends a query and waits for the reply, and may  *)
(* go away at any moment, also in the middle of a send.                    *)
(***************************************************************************)
(* the queries the client sends; the last holds a two-byte character *)
ServerQueries ==
  { Q(<<kw_FROM, f_a>>),
    Q(<<kw_FROM, f_a, kw_SELECT, s_name>>),
    Q(<<kw_FROM, f_missing, kw_TAKE, <<"1">>>>),
    Q(<<kw_FROM, f_a, kw_SELECT, <<c_eacute>>>>) }

(* the framed messages at the front of a byte sequence *)
RECURSIVE FramedCount(_)
FramedCount(bs) ==
  IF Len(bs) < HEADER_SIZE THEN 0
  ELSE IF Len(bs) < HEADER_SIZE + from_bytes(SubSeq(bs, 1, HEADER_SIZE), BYTE_ORDER) THEN 0
  ELSE 1 + FramedCount(SubSeq(bs, HEADER_SIZE
                                  + from_bytes(SubSeq(bs, 1, HEADER_SIZE), BYTE_ORDER) + 1,
                              Len(bs)))

InitServer ==
  /\ IdleEngine
  /\ srv_pc = "accept"
  /\ srv_err = ""
  /\ conn = "none"
  /\ sent = <<>>
  /\ wire = <<>>
  /\ rx_pc = "idle"
  /\ rx_need = 0
  /\ rx_data = <<>>
  /\ rx_out = NotReceived
  /\ heard = <<>>
  /\ outbox = <<>>

(* s.accept() returns the connection of a client; the loop calls           *)
(* receive_msg                                                             *)
Accept ==
  /\ srv_pc = "accept"
  /\ srv_pc' = "receive"
  /\ conn' = "open"
  /\ sent' = <<>>
  /\ wire' = <<>>
  /\ heard' = <<>>
  /\ outbox' = <<>>
  /\ StartReceive
  /\ UNCHANGED <<srv_err, left_rows, right_rows, num_rows, take_out, hash_out, merge_out,
                 unaryVars, inferVars, engineVars, threadVars>>

(* the client has a reply for each query it sent, and sends the next *)
ClientSend(q) ==
  /\ conn = "open"
  /\ Len(sent) < MaxMsgs
  /\ FramedCount(outbox) = Len(sent)
  /\ sent' = Append(sent, q)
  /\ wire' = wire \o make_msg(q)
  /\ UNCHANGED <<srv_pc, srv_err, conn, rxVars, heard, outbox,
                 left_rows, right_rows, num_rows, take_out, hash_out, merge_out,
                 unaryVars, inferVars, engineVars, threadVars>>

(* the client ends while sendall has passed on k bytes of the message *)
ClientSendCut(q, k) ==
  /\ conn = "open"
  /\ Len(sent) < MaxMsgs
  /\ FramedCount(outbox) = Len(sent)
  /\ k < Len(make_msg(q))
  /\ wire' = wire \o SubSeq(make_msg(q), 1, k)
  /\ conn' = "dropped"
  /\ UNCHANGED <<srv_pc, srv_err, sent, rxVars, heard, outbox,
                 left_rows, right_rows, num_rows, take_out, hash_out, merge_out,
                 unaryVars, inferVars, engineVars, threadVars>>

(* the client ends, between sends or while it waits for a reply *)
ClientDrop ==
  /\ conn = "open"
  /\ conn' = "dropped"
  /\ UNCHANGED <<srv_pc, srv_err, sent, wire, rxVars, heard, outbox,
                 left_rows, right_rows, num_rows, take_out, hash_out, merge_out,
                 unaryVars, inferVars, engineVars, threadVars>>

(* receive_msg raised: nothing catches it, the server ends *)
ReceiveRaised ==
  /\ srv_pc = "receive"
  /\ rx_pc = "done"
  /\ rx_out.raised # ""
  /\ srv_pc' = "crashed"
  /\ srv_err' = rx_out.raised
  /\ UNCHANGED <<conn, sent, wire, rxVars, heard, outbox,
                 left_rows, right_rows, num_rows, take_out, hash_out, merge_out,
                 unaryVars, inferVars, engineVars, threadVars>>

(* the exception that ends the handling of a message whose run_query ended *)
(* with r: the one run_query raised, else the AttributeError of            *)
(* query_engine.rows_to_string, a method QueryRunner does not have         *)
HandlingError(r) == IF r.raised # "" THEN r.raised ELSE "AttributeError"

(* the state after the server handled msg, run_query having ended with r:  *)
(* the message is printed, run_query has worked on the cache, and line 35  *)
(* is never passed, so send_msg is not reached                             *)
Handled(msg, r) ==
  /\ heard' = Append(heard, msg)
  /\ data_loaded' = r.cache
  /\ reads' = r.reads
  /\ srv_pc' = "crashed"
  /\ srv_err' = HandlingError(r)
  /\ UNCHANGED <<conn, sent, wire, rxVars, outbox, queryVars,
                 left_rows, right_rows, num_rows, take_out, hash_out, merge_out,
                 unaryVars, inferVars, threadVars>>

(* receive_msg returned a message with status 0 *)
HandleQuery ==
  /\ srv_pc = "receive"
  /\ rx_pc = "done"
  /\ rx_out.raised = ""
  /\ rx_out.status = 0
  /\ Handled(rx_out.msg, run_query(Files, data_loaded, reads, rx_out.msg))

(* receive_msg returned status 1: the error message is sent to the client, *)
(* which is gone.  The transport takes the bytes of a send as long as it   *)
(* has not learnt that the peer is closed (at most MaxSends sends here),   *)
(* and the loop calls receive_msg again                                    *)
HandleError ==
  /\ srv_pc = "receive"
  /\ rx_pc = "done"
  /\ rx_out.raised = ""
  /\ rx_out.status = 1
  /\ FramedCount(outbox) < MaxSends
  /\ outbox' = outbox \o make_msg(rx_out.msg)
  /\ StartReceive
  /\ UNCHANGED <<srv_pc, srv_err, conn, sent, wire, heard,
                 left_rows, right_rows, num_rows, take_out, hash_out, merge_out,
                 unaryVars, inferVars, engineVars, threadVars>>

(* the same, the send to the closed connection raising (BrokenPipeError,   *)
(* or ConnectionResetError): nothing catches it, the server ends           *)
HandleErrorBroken ==
  /\ srv_pc = "receive"
  /\ rx_pc = "done"
  /\ rx_out.raised = ""
  /\ rx_out.status = 1
  /\ srv_pc' = "crashed"
  /\ srv_err' = "BrokenPipeError"
  /\ UNCHANGED <<conn, sent, wire, rxVars, heard, outbox,
                 left_rows, right_rows, num_rows, take_out, hash_out, merge_out,
                 unaryVars, inferVars, engineVars, threadVars>>

(* the steps of the server process that receive, or handle what            *)
(* receive_msg raised or returned with status 1                            *)
ReceiveStep ==
  \/ Recv
  \/ RecvEof
  \/ HeaderRead
  \/ BodyRead
  \/ ReceiveRaised
  \/ HandleError
  \/ HandleErrorBroken

(* the steps of the server process *)
ServerStep == ReceiveStep \/ HandleQuery

(* the steps of the clients *)
ClientStep ==
  \/ \E q \in ServerQueries : ClientSend(q)
  \/ \E q \in ServerQueries : \E k \in 1..(HEADER_SIZE + Len(q)) : ClientSendCut(q, k)
  \/ ClientDrop

NextServer == Accept \/ ClientStep \/ ServerStep

SpecServer == InitServer /\ [][NextServer]_vars

(* the server process is never halted by its scheduler: a step of         *)
(* receiving, or of handling an error status, that stays possible is       *)
(* taken.  (The step that handles a query ends the server process; once    *)
(* receive_msg has returned status 1 that step is never possible again,    *)
(* so no fairness is stated for it.)                                       *)
SpecServerFair == SpecServer /\ WF_vars(ReceiveStep)

(***************************************************************************)
(* Two threads calling _load_data on one QueryRunner.  The code takes no   *)
(* lock, so the threads interleave between the membership test, the size   *)
(* test, the read, the insert and the return.                              *)
(***************************************************************************)
InitThreads ==
  /\ IdleThreads
  /\ data_loaded = NoCache
  /\ reads = NoReads
  /\ query_str = <<>>
  /\ result = NoResult
  /\ trace = NoGhost
  /\ previous = NoResult
  /\ served = 0
  /\ IdleOps

(* a query reaches _load_data(f) *)
LoadCall(t, f) ==
  /\ pc[t] = "idle"
  /\ calls[t] < MaxCalls
  /\ pc' = [pc EXCEPT ![t] = "check"]
  /\ file_name' = [file_name EXCEPT ![t] = f]
  /\ data' = [data EXCEPT ![t] = <<>>]
  /\ calls' = [calls EXCEPT ![t] = @ + 1]
  /\ UNCHANGED <<data_loaded, reads, queryVars, opVars>>

(* if file_name in self.data_loaded: data = self.data_loaded[file_name] *)
LoadCheck(t) ==
  /\ pc[t] = "check"
  /\ IF CacheHit(data_loaded, file_name[t])
     THEN /\ data' = [data EXCEPT ![t] = data_loaded[file_name[t]]]
          /\ pc' = [pc EXCEPT ![t] = "return"]
     ELSE /\ data' = data
          /\ pc' = [pc EXCEPT ![t] = "getsize"]
  /\ UNCHANGED <<data_loaded, reads, file_name, calls, queryVars, opVars>>

(* if not getsize(file_name): return [], "Empty file"; a missing file raises *)
(* and the except clause returns                                            *)
LoadGetSize(t) ==
  /\ pc[t] = "getsize"
  /\ pc' = [pc EXCEPT ![t] =
              IF file_name[t] \in DOMAIN Files /\ Files[file_name[t]] # <<>>
              THEN "read" ELSE "idle"]
  /\ UNCHANGED <<data_loaded, reads, file_name, data, calls, queryVars, opVars>>

(* the with-block: open the file, read the header and the rows *)
LoadRead(t) ==
  /\ pc[t] = "read"
  /\ reads' = CountRead(reads, file_name[t])
  /\ LET d == ReadRows(Files[file_name[t]])
     IN  IF d.raised # ""
         THEN /\ data' = data
              /\ pc' = [pc EXCEPT ![t] = "idle"]
         ELSE /\ data' = [data EXCEPT ![t] = d.rows]
              /\ pc' = [pc EXCEPT ![t] = "store"]
  /\ UNCHANGED <<data_loaded, file_name, calls, queryVars, opVars>>

(* if not data: return [], "Empty file"; self.data_loaded[file_name] = data *)
LoadStore(t) ==
  /\ pc[t] = "store"
  /\ IF data[t] = <<>>
     THEN /\ data_loaded' = data_loaded
          /\ pc' = [pc EXCEPT ![t] = "idle"]
     ELSE /\ data_loaded' = CacheInsert(data_loaded, file_name[t], data[t])
          /\ pc' = [pc EXCEPT ![t] = "return"]
  /\ UNCHANGED <<reads, file_name, data, calls, queryVars, opVars>>

(* return data, "" *)
LoadReturn(t) ==
  /\ pc[t] = "return"
  /\ pc' = [pc EXCEPT ![t] = "idle"]
  /\ UNCHANGED <<data_loaded, reads, file_name, data, calls, queryVars, opVars>>

NextThreads ==
  \E t \in Threads :
    \/ \E f \in FileNames : LoadCall(t, f)
    \/ LoadCheck(t)
    \/ LoadGetSize(t)
    \/ LoadRead(t)
    \/ LoadStore(t)
    \/ LoadReturn(t)

SpecThreads == InitThreads /\ [][NextThreads]_vars

(* C5: two concurrent first references to a source cause exactly one read  *)
(* and inference pass, and both callers return the one cached relation.    *)
C5_SingleFlight ==
  /\ \A f \in DOMAIN data_loaded : reads[f] <= 1
  /\ \A t \in Threads :
       pc[t] = "return" => data[t] = data_loaded[file_name[t]]

(***************************************************************************)
(* Vocabulary of the properties of the operators.                          *)
(***************************************************************************)
Occurrences(seq, x) == Cardinality({i \in 1..Len(seq) : seq[i] = x})

SameBag(a, b) ==
  /\ Len(a) = Len(b)
  /\ \A i \in 1..Len(a) : Occurrences(a, a[i]) = Occurrences(b, a[i])

KeyCount(rows, k) == Cardinality({i \in 1..Len(rows) : getattr(rows[i], s_id) = k})

IntKeys(rows) == \A i \in 1..Len(rows) : getattr(rows[i], s_id).int

(* the output row that pairs left row i with right row j *)
Pairing(i, j) ==
  Row(<<s_id, s_name, s_score>>,
      <<left_rows[i].v[1], left_rows[i].v[2], right_rows[j].v[2]>>)

(* a*b rows for every key, one per pairing of a left and a right row *)
FullJoin(out) ==
  /\ out.raised = ""
  /\ \A k \in KeyCells :
       KeyCount(out.rows, k) = KeyCount(left_rows, k) * KeyCount(right_rows, k)
  /\ \A i \in 1..Len(left_rows), j \in 1..Len(right_rows) :
       left_rows[i].v[1] = right_rows[j].v[1] => Occurrences(out.rows, Pairing(i, j)) = 1

(***************************************************************************)
(* Properties of the operators, checked under SpecOps.                     *)
(***************************************************************************)
JoinsDone == hash_out # NotRun /\ merge_out # NotRun

(* C1: _hash_join and _merge_join return the same multiset of rows for the *)
(* same non-empty relations and join column.  Stated here for join columns *)
(* that hold int values only, where any two keys can be compared.          *)
C1_HashMergeSameRows ==
  (JoinsDone /\ IntKeys(left_rows) /\ IntKeys(right_rows)) =>
    /\ hash_out.raised = ""
    /\ merge_out.raised = ""
    /\ SameBag(hash_out.rows, merge_out.rows)

(* C2: the hash join is an inner many-to-many equi-join: a*b output rows   *)
(* for a key with a left rows and b right rows, one per pairing, whichever *)
(* side is the build side, and no row for a key present on one side only.  *)
C2_HashJoinCardinality == hash_out # NotRun => FullJoin(hash_out)

(* C2 witness: the right relation is the build side, key 1 is duplicated   *)
(* on both sides and some key is on the left only.                         *)
C2_Witness ==
  /\ hash_out # NotRun
  /\ Len(left_rows) > Len(right_rows)
  /\ KeyCount(left_rows, IntCell(1)) = 2
  /\ KeyCount(right_rows, IntCell(1)) = 2
  /\ KeyCount(hash_out.rows, IntCell(1)) = 4
  /\ \E k \in KeyCells : KeyCount(left_rows, k) > 0 /\ KeyCount(right_rows, k) = 0

(* C3: the sort-merge join emits a*b output rows for a key with a left     *)
(* rows and b right rows, wherever the right-side run of the key lies, and *)
(* no row for a key present on one side only.  Stated for int join values  *)
(* and for the calls that return.                                          *)
C3_MergeJoinCardinality ==
  (merge_out # NotRun /\ merge_out.raised = "" /\ IntKeys(left_rows) /\ IntKeys(right_rows))
    => FullJoin(merge_out)

(* C10: _take returns the first min(n, |R|) rows for n > 0, the last       *)
(* min(|n|, |R|) rows for n < 0, no row for n = 0 and R itself when        *)
(* |n| >= |R| and n # 0, in input order, and never fails.                  *)
C10_TakeFirstOrLast ==
  take_out # NotRun =>
    LET R == left_rows
        n == num_rows
        out == take_out.rows
    IN  /\ take_out.raised = ""
        /\ n > 0 => /\ Len(out) = Min(n, Len(R))
                    /\ \A i \in 1..Len(out) : out[i] = R[i]
        /\ n < 0 => /\ Len(out) = Min(0 - n, Len(R))
                    /\ \A i \in 1..Len(out) : out[i] = R[Len(R) - Len(out) + i]
        /\ n = 0 => out = <<>>
        /\ (n # 0 /\ (n >= Len(R) \/ 0 - n >= Len(R))) => out = R

(* C10 witness: the last two rows of a three-row relation were taken *)
C10_Witness ==
  /\ take_out # NotRun
  /\ num_rows = 0 - 2
  /\ Len(left_rows) = 3
  /\ take_out.rows = <<left_rows[2], left_rows[3]>>

(***************************************************************************)
(* Properties of the engine, checked under Spec.                           *)
(***************************************************************************)
IsMessage(val) == val # <<>> /\ ~Contains(val, "\n")

(* the action of the step of the last query that met an error condition *)
FailedAction == _parse_query(query_str).steps[trace.failed + 1].action

(* C4: queries run one after the other read and infer a source at most     *)
(* once: a cached source has been read exactly once, and every successful  *)
(* _load_data of the query returned the relation that is in the cache.     *)
(* (A source whose load fails is not cached and is read again.)            *)
C4_LoadedOnce ==
  /\ \A f \in DOMAIN data_loaded : reads[f] = 1
  /\ \A k \in 1..Len(trace.loads) :
       trace.loads[k].rows # <<>> =>
         /\ trace.loads[k].name \in DOMAIN data_loaded
         /\ trace.loads[k].rows = data_loaded[trace.loads[k].name]

(* C4 witness: the second query referred to a source that was cached and   *)
(* got its relation without the file being opened                          *)
C4_Witness ==
  /\ served = 2
  /\ \E k \in 1..Len(trace.loads) :
       /\ ~trace.loads[k].opened
       /\ trace.loads[k].rows # <<>>
       /\ reads[trace.loads[k].name] = 1

(* C6: when a step fails, no later step is executed and run_query returns  *)
(* that step's error message: a non-empty single-line message, not rows.   *)
C6_ShortCircuit ==
  trace.failed # NoStep =>
    /\ result.raised = ""
    /\ IsMessage(result.val)
    /\ \A k \in 1..Len(trace.executed) : trace.executed[k] <= trace.failed

(* C7: an ORDERBY, COUNTBY or JOIN step that names a column absent from    *)
(* the relation ends the query with an error value returned by run_query.  *)
C7_UnknownColumnReturned ==
  (trace.fault = "UnknownColumn" /\ FailedAction \in {kw_ORDERBY, kw_COUNTBY, kw_JOIN}) =>
    /\ result.raised = ""
    /\ IsMessage(result.val)

(* C8: a join whose right relation has a column, other than the join       *)
(* column, named like a left column ends the query with an error value     *)
(* returned by run_query: no rows, no exception.                           *)
C8_SchemaConflictReturned ==
  trace.fault = "SchemaConflict" =>
    /\ result.raised = ""
    /\ IsMessage(result.val)

(* rows is the whole content of a file: its header and one row per line *)
CompleteRelation(rows, lines) ==
  /\ rows # <<>>
  /\ Len(rows) = Len(lines) - 1
  /\ \A i \in 1..Len(rows) :
       /\ RowLine(rows[i].f) = lines[1]
       /\ RowLine([k \in 1..Len(rows[i].v) |-> CellStr(rows[i].v[k])]) = lines[i + 1]

CacheComplete ==
  \A f \in DOMAIN data_loaded :
    f \in DOMAIN Files /\ CompleteRelation(data_loaded[f], Files[f])

(* the last query returned what it returns on a fresh engine *)
SameAsFresh ==
  served > 0 =>
    LET r == run_query(Files, NoCache, NoReads, query_str)
    IN  result = [raised |-> r.raised, val |-> r.val]

EntriesKept ==
  \A f \in DOMAIN data_loaded : f \in DOMAIN data_loaded' /\ data_loaded'[f] = data_loaded[f]

(* C9: every entry of data_loaded is the complete, non-empty relation of   *)
(* its source; a failing load adds no entry and no query removes or alters *)
(* an entry; a query returns what it would return on a fresh engine.       *)
C9_CacheIntact == [](CacheComplete /\ SameAsFresh) /\ [][EntriesKept]_vars

(* C9 witness: after a query that failed on the header-only file, with     *)
(* a.csv cached and hdr.csv not, a query over a.csv returned its rows       *)
C9_Witness ==
  /\ served = 2
  /\ previous.val = MsgEmptyFile
  /\ f_a \in DOMAIN data_loaded
  /\ f_hdr \notin DOMAIN data_loaded
  /\ reads[f_hdr] > 0
  /\ query_str = Q(<<kw_FROM, f_a>>)
  /\ result.val = _rows_to_string(data_loaded[f_a])

(***************************************************************************)
(* Properties of the parser and of the text run_query returns, checked     *)
(* under Spec.                                                             *)
(***************************************************************************)
(* the queries whose TAKE has a negative argument, each with the relation  *)
(* that reaches its TAKE step and the k of the argument -k                 *)
NegativeTakes ==
  { [q |-> Q(<<kw_FROM, f_a, kw_TAKE, <<"-", "1">>>>),
     rows |-> ReadRows(Files[f_a]).rows, k |-> 1],
    [q |-> Q(<<kw_FROM, f_a, kw_SELECT, s_name, kw_TAKE, <<"-", "1">>>>),
     rows |-> _select(ReadRows(Files[f_a]).rows, s_name).rows, k |-> 1] }

(* C11: a query whose TAKE has a negative argument -k parses and returns   *)
(* the last k rows of the relation that reaches the TAKE step; Example 3   *)
(* returns the single row with name z.                                     *)
C11_NegativeTakeServed ==
  /\ \A c \in NegativeTakes :
       (served > 0 /\ query_str = c.q) =>
         /\ _parse_query(query_str).steps # <<>>
         /\ result.raised = ""
         /\ result.val = _rows_to_string(SubSeq(c.rows, Len(c.rows) - c.k + 1, Len(c.rows)))
  /\ (served > 0 /\ query_str = Q(<<kw_FROM, f_a, kw_SELECT, s_name, kw_TAKE, <<"-", "1">>>>))
       => result.val = <<"n", "a", "m", "e", "\n", "z", "\n">>

(***************************************************************************)
(* Properties of the operators of one relation, checked under SpecUnary.   *)
(***************************************************************************)
(* the column names SELECT was asked for, in the order asked *)
Requested == split(sel_cols, ",")

AllPresent == \A k \in 1..Len(Requested) : HasField(left_rows[1], Requested[k])

(* C12: for column names all present in the relation, _select returns one  *)
(* row per input row, in input order, whose schema is the requested list   *)
(* in the requested order, a name asked for twice giving two columns with  *)
(* the same source value.                                                  *)
C12_ProjectSchemaAndRows ==
  (select_out # NotRun /\ AllPresent) =>
    /\ select_out.raised = ""
    /\ Len(select_out.rows) = Len(left_rows)
    /\ \A i \in 1..Len(select_out.rows) :
         /\ select_out.rows[i].f = Requested
         /\ Len(select_out.rows[i].v) = Len(Requested)
         /\ \A k \in 1..Len(Requested) :
              select_out.rows[i].v[k] = getattr(left_rows[i], Requested[k])

(* the position in rows of the first row whose column col holds k *)
FirstAt(rows, col, k) ==
  CHOOSE i \in 1..Len(rows) :
    /\ getattr(rows[i], col) = k
    /\ \A j \in 1..(i - 1) : getattr(rows[j], col) # k

RECURSIVE SumCounts(_)
SumCounts(rows) ==
  IF rows = <<>> THEN 0 ELSE getattr(rows[1], s_count).n + SumCounts(Tail(rows))

(* C13: for a column c of the relation R, _countby returns rows over the   *)
(* schema (c, count) in which every distinct value of c in R appears       *)
(* exactly once, in the order of its first occurrence in R, with count the *)
(* number of rows of R that hold the value; the counts sum to |R|.         *)
C13_GroupCount ==
  (group_out # NotRun /\ HasField(group_in[1], group_col)) =>
    /\ group_out.raised = ""
    /\ \A i \in 1..Len(group_out.rows) :
         /\ group_out.rows[i].f = <<group_col, s_count>>
         /\ group_out.rows[i].v[2] =
              IntCell(Cardinality({j \in 1..Len(group_in) :
                                     getattr(group_in[j], group_col) = group_out.rows[i].v[1]}))
         /\ group_out.rows[i].v[2].n > 0
    /\ \A j \in 1..Len(group_in) :
         Cardinality({i \in 1..Len(group_out.rows) :
                        group_out.rows[i].v[1] = getattr(group_in[j], group_col)}) = 1
    /\ \A i, j \in 1..Len(group_out.rows) :
         i < j => FirstAt(group_in, group_col, group_out.rows[i].v[1])
                    < FirstAt(group_in, group_col, group_out.rows[j].v[1])
    /\ SumCounts(group_out.rows) = Len(group_in)

(* the key of row i of the sorted output, and where that row was in the    *)
(* input (the rows of a relation of the model differ in their name)        *)
SortKey(i) == getattr(sort_out.rows[i], sort_col)

CameFrom(i) == IndexOf(left_rows, sort_out.rows[i])

(* FROM a.csv ORDERBY id as run_query serves it: descending, 1,x before 1,z *)
OrderByClauseDescends ==
  run_query(Files, NoCache, NoReads, Q(<<kw_FROM, f_a, kw_ORDERBY, s_id>>)).val
    = <<"i", "d", ",", "n", "a", "m", "e", "\n", "2", ",", "y", "\n",
        "1", ",", "x", "\n", "1", ",", "z", "\n">>

(* C14: what _orderby returns is a permutation of its input, ordered by    *)
(* the key column (non-increasing when descending, as the ORDERBY clause   *)
(* always asks, non-decreasing otherwise), and rows with equal keys keep   *)
(* their input order in both directions.                                   *)
C14_StableSort ==
  (sort_out # NotRun /\ sort_out.raised = "") =>
    /\ SameBag(left_rows, sort_out.rows)
    /\ \A i, j \in 1..Len(sort_out.rows) :
         i < j =>
           /\ sort_desc => ~CellLt(SortKey(i), SortKey(j))
           /\ ~sort_desc => ~CellLt(SortKey(j), SortKey(i))
           /\ SortKey(i) = SortKey(j) => CameFrom(i) < CameFrom(j)
    /\ OrderByClauseDescends

(* C14 witness: a descending sort moved the row with the larger key to the *)
(* front and left the two rows with the equal key in input order           *)
C14_Witness ==
  /\ sort_out # NotRun
  /\ sort_out.raised = ""
  /\ sort_desc
  /\ sort_col = s_id
  /\ Len(left_rows) = 3
  /\ getattr(left_rows[1], s_id) = IntCell(1)
  /\ getattr(left_rows[2], s_id) = IntCell(2)
  /\ getattr(left_rows[3], s_id) = IntCell(1)
  /\ sort_out.rows = <<left_rows[2], left_rows[1], left_rows[3]>>

(***************************************************************************)
(* The query shape: FROM and a source identifier, then clauses, SELECT,    *)
(* TAKE, ORDERBY and COUNTBY with one argument each and JOIN with two.     *)
(***************************************************************************)
IsArgument(t) == t \notin keywords

(* the tokens from position i on are clauses, each with its arguments *)
RECURSIVE ClausesShaped(_, _)
ClausesShaped(tokens, i) ==
  IF i > Len(tokens) THEN TRUE
  ELSE IF tokens[i] \in {kw_SELECT, kw_TAKE, kw_ORDERBY, kw_COUNTBY}
  THEN /\ i + 1 <= Len(tokens)
       /\ IsArgument(tokens[i + 1])
       /\ ClausesShaped(tokens, i + 2)
  ELSE IF tokens[i] = kw_JOIN
  THEN /\ i + 2 <= Len(tokens)
       /\ IsArgument(tokens[i + 1])
       /\ IsArgument(tokens[i + 2])
       /\ ClausesShaped(tokens, i + 3)
  ELSE FALSE

QueryShaped(tokens) ==
  /\ Len(tokens) >= 2
  /\ tokens[1] = kw_FROM
  /\ IsArgument(tokens[2])
  /\ ClausesShaped(tokens, 3)

(* C15: for every token sequence that violates the query shape,            *)
(* _parse_query returns no steps and a non-empty message: it does not      *)
(* accept the query, drop a trailing keyword, or raise.                    *)
C15_MalformedRejected ==
  (served > 0 /\ ~QueryShaped(splitws(query_str))) =>
    /\ _parse_query(query_str).raised = ""
    /\ _parse_query(query_str).steps = <<>>
    /\ _parse_query(query_str).err # <<>>

(* the lines of the text val: what precedes each "\n" *)
TextLines(val) == SubSeq(split(val, "\n"), 1, Len(split(val, "\n")) - 1)

(* a header line of comma-joined names and one comma-joined line per row,  *)
(* every line ended by "\n"                                                *)
IsTable(val) ==
  /\ val # <<>>
  /\ val[Len(val)] = "\n"
  /\ Len(TextLines(val)) >= 2
  /\ \A i \in 1..Len(TextLines(val)) :
       /\ TextLines(val)[i] # <<>>
       /\ Len(split(TextLines(val)[i], ",")) = Len(split(TextLines(val)[1], ","))

(* the last query parsed, none of its steps met an error condition and    *)
(* run_query returned                                                      *)
ServedWithoutError ==
  /\ served > 0
  /\ _parse_query(query_str).steps # <<>>
  /\ trace.failed = NoStep
  /\ result.raised = ""

(* C16: what run_query returns is a header line and one line per result    *)
(* row, or a non-empty single-line message; a pipeline that yields zero    *)
(* rows without an error (TAKE 0, a JOIN with no matching key) returns     *)
(* "No data returned.".  Stated here for the queries that parse, meet no   *)
(* error condition and return.                                             *)
C16_OutputShape ==
  ServedWithoutError =>
    /\ IsTable(result.val) \/ IsMessage(result.val)
    /\ ~IsTable(result.val) => result.val = MsgNoData

(* _parse_query gave run_query no step for the last query *)
ParseFailed == served > 0 /\ _parse_query(query_str).steps = <<>>

(* no source was loaded and no operator ran *)
NothingExecuted == trace.executed = <<>> /\ trace.loads = <<>>

ParseErrorReturned ==
  /\ ParseFailed => NothingExecuted
  /\ (ParseFailed /\ _parse_query(query_str).raised = "") =>
       result = [raised |-> "", val |-> _parse_query(query_str).err]
  /\ (served > 0 /\ splitws(query_str) # <<>> /\ splitws(query_str)[1] # kw_FROM) =>
       /\ result = [raised |-> "", val |-> MsgMissingSource]
       /\ NothingExecuted

(* a step to a state whose query failed parsing leaves the cache alone *)
ParseFailureKeepsCache ==
  (served' = served + 1 /\ ParseFailed') =>
    /\ data_loaded' = data_loaded
    /\ reads' = reads

(* C17: a query that fails parsing returns the parse error message (one    *)
(* whose first token is not FROM returns "Missing data source") and        *)
(* executes nothing: no source is loaded, no operator runs and             *)
(* data_loaded is unchanged.                                               *)
C17_ParseFailureExecutesNothing ==
  []ParseErrorReturned /\ [][ParseFailureKeepsCache]_vars

(* C17 witness: with a.csv cached by the query before, a query without     *)
(* FROM returned the message and loaded nothing                            *)
C17_Witness ==
  /\ served = 2
  /\ query_str = Q(<<kw_SELECT, s_name>>)
  /\ result.val = MsgMissingSource
  /\ trace.loads = <<>>
  /\ DOMAIN data_loaded = {f_a}
  /\ reads[f_a] = 1

(* _select returned a relation *)
Projected == select_out # NotRun /\ select_out.raised = "" /\ select_out.rows # <<>>

(* C18: applying an operator twice equals applying it once: _select with   *)
(* the same columns to what _select returned gives it again, _take with    *)
(* the same count to what _take returned gives it again, for every count,  *)
(* negative ones included; and _select of all the columns of the relation, *)
(* in their order, returns the schema and rows of the relation.            *)
C18_Idempotent ==
  /\ Projected => _select(select_out.rows, sel_cols) = select_out
  /\ take_out # NotRun => _take(take_out.rows, num_rows) = take_out.rows
  /\ (select_out # NotRun /\ sel_cols = join(<<",">>, left_rows[1].f)) =>
       select_out = Ok(left_rows)

(* C18 witness: the two columns were projected in swapped order and the    *)
(* last two of three rows were taken                                       *)
C18_Witness ==
  /\ Projected
  /\ sel_cols = s_name \o <<",">> \o s_id
  /\ select_out.rows[1].f = <<s_name, s_id>>
  /\ take_out # NotRun
  /\ num_rows = 0 - 2
  /\ Len(left_rows) = 3
  /\ take_out.rows = <<left_rows[2], left_rows[3]>>

(***************************************************************************)
(* Properties of the rows and of the cursors of the joins, checked under   *)
(* SpecOps.                                                                *)
(***************************************************************************)
(* the columns of the right row r that the join keeps *)
RightKept(r) == SelectSeq(r.f, LAMBDA c : c # s_id)

(* row is the left row l and the right row r joined on id: the columns of  *)
(* l in their order, then the columns of r without id in their order, each *)
(* with the value it has in l or in r                                      *)
Paired(row, l, r) ==
  /\ getattr(l, s_id) = getattr(r, s_id)
  /\ row.f = l.f \o RightKept(r)
  /\ Len(row.v) = Len(row.f)
  /\ \A k \in 1..Len(l.f) : row.v[k] = l.v[k]
  /\ \A k \in 1..Len(RightKept(r)) : row.v[Len(l.f) + k] = getattr(r, RightKept(r)[k])

RowsPaired(out) ==
  out.raised = "" =>
    \A i \in 1..Len(out.rows) :
      \E l \in 1..Len(left_rows), r \in 1..Len(right_rows) :
        Paired(out.rows[i], left_rows[l], right_rows[r])

(* C19: every row a join outputs, by either strategy and whichever side    *)
(* the hash join builds on, has the left columns in their order followed   *)
(* by the right columns without the join column in their order, each       *)
(* column with the value of the paired left row or the paired right row.   *)
C19_JoinRowShape ==
  /\ hash_out # NotRun => RowsPaired(hash_out)
  /\ merge_out # NotRun => RowsPaired(merge_out)

(* C19 witness: the right relation is the smaller one, so the hash join    *)
(* built on it, and both joins output a row                                *)
C19_Witness ==
  /\ JoinsDone
  /\ Len(right_rows) < Len(left_rows)
  /\ hash_out.raised = "" /\ hash_out.rows # <<>>
  /\ merge_out.raised = "" /\ merge_out.rows # <<>>
  /\ hash_out.rows[1].f = <<s_id, s_name, s_score>>

(* C20: in the merge phase of _merge_join every read of                    *)
(* sorted_left[left_cur] and sorted_right[right_cur] is within the         *)
(* relation: the catch-up loops never step a cursor past the end.          *)
C20_CursorsInBounds == merge_out # NotRun => merge_out.raised # "IndexError"

(***************************************************************************)
(* Properties of the cached relations and of the loader.                   *)
(***************************************************************************)
(* the relation a first load of the source f makes: the rows of the file   *)
(* in file order under the header's schema                                 *)
FirstLoaded(f) == ReadRows(Files[f]).rows

(* C21: no operator changes its input: after any sequence of queries the   *)
(* relation cached for a source has the rows, the row order and the schema *)
(* of its first load, and a query that is only FROM that source returns    *)
(* the rows in load order.                                                 *)
C21_InputsNotMutated ==
  /\ \A f \in DOMAIN data_loaded : data_loaded[f] = FirstLoaded(f)
  /\ \A f \in DOMAIN data_loaded :
       (served > 0 /\ query_str = Q(<<kw_FROM, f>>)) =>
         result = [raised |-> "", val |-> _rows_to_string(FirstLoaded(f))]

(* C21 witness: after a query that sorted b.csv by score, descending, and  *)
(* took two rows, FROM b.csv returned the three rows in file order         *)
C21_Witness ==
  /\ served = 2
  /\ previous.val = <<"i", "d", ",", "s", "c", "o", "r", "e", "\n",
                      "2", ",", "3", "0", "\n", "1", ",", "2", "0", "\n">>
  /\ query_str = Q(<<kw_FROM, f_b>>)
  /\ reads[f_b] = 1
  /\ result.val = <<"i", "d", ",", "s", "c", "o", "r", "e", "\n",
                    "1", ",", "1", "0", "\n", "1", ",", "2", "0", "\n",
                    "2", ",", "3", "0", "\n">>

(* the text is a non-empty sequence of decimal digits *)
AllDigits(text) ==
  text # <<>> /\ \A i \in 1..Len(text) : text[i] \in {"0", "1", "2", "3", "4", "5", "6", "7", "8", "9"}

(* the number the digits denote, leading zeros allowed *)
RECURSIVE Denoted(_)
Denoted(text) ==
  IF text = <<>> THEN 0
  ELSE 10 * Denoted(SubSeq(text, 1, Len(text) - 1))
       + (CHOOSE d \in 0..9 : Digits[d + 1] = text[Len(text)])

(* C22: on load a cell whose text is a non-empty sequence of decimal       *)
(* digits, leading zeros included, becomes an Integer cell with that       *)
(* value, every other text becomes a Text cell equal to the text, and      *)
(* inference never makes the load fail.                                    *)
C22_CellInference ==
  load_out # NotRun =>
    /\ inferred.raised = ""
    /\ load_out.raised = ""
    /\ Len(load_out.rows) = 1
    /\ load_out.rows[1].f = <<s_v>>
    /\ load_out.rows[1].v =
         <<IF AllDigits(cell_text)
           THEN [int |-> TRUE, n |-> Denoted(cell_text), s |-> <<>>]
           ELSE [int |-> FALSE, n |-> 0, s |-> cell_text]>>

(***************************************************************************)
(* C25: framing round-trips.  When receive_msg has returned from reading   *)
(* the bytes of make_msg(body), in whatever chunks recv delivered them, it *)
(* returned (body, 0), the bytes left on the connection are exactly those  *)
(* of the next message, and the header of make_msg(body) holds the number  *)
(* of bytes of the encoded body.                                           *)
(***************************************************************************)
HeaderValue(body) == from_bytes(SubSeq(make_msg(body), 1, HEADER_SIZE), BYTE_ORDER)

C25_FramingRoundTrip ==
  rx_pc = "done" =>
    /\ rx_out = [raised |-> "", msg |-> sent[1], status |-> 0]
    /\ wire = make_msg(sent[2])
    /\ HeaderValue(sent[1]) = Len(encode(sent[1]))

(* the same for the bodies whose characters all encode to one byte *)
OneByteBody(body) == \A i \in 1..Len(body) : body[i] \notin WideChars

C25_OneByteBodiesRoundTrip ==
  (rx_pc = "done" /\ OneByteBody(sent[1])) =>
    /\ rx_out = [raised |-> "", msg |-> sent[1], status |-> 0]
    /\ wire = make_msg(sent[2])
    /\ HeaderValue(sent[1]) = Len(encode(sent[1]))

(***************************************************************************)
(* C23: every well-framed query the server receives is answered.  When the *)
(* server has handled the first query of a connection, sent whole and of   *)
(* one-byte characters, it is in its receive loop and has sent one framed  *)
(* response, whose body is what run_query returns for the query.           *)
(***************************************************************************)
QueryHandled ==
  /\ Len(heard) = 1
  /\ heard = sent
  /\ OneByteBody(sent[1])

C23_QueryAnswered ==
  QueryHandled =>
    /\ srv_pc = "receive"
    /\ outbox = make_msg(run_query(Files, NoCache, NoReads, heard[1]).val)

(***************************************************************************)
(* C24: a dropped connection leads back to accept.  Once the client of the *)
(* connection is gone and receive_msg has returned status 1 for want of a  *)
(* header, the server eventually waits in accept for the next client, its  *)
(* QueryRunner holding what it held.                                       *)
(***************************************************************************)
DropReported ==
  /\ conn = "dropped"
  /\ srv_pc = "receive"
  /\ rx_pc = "done"
  /\ rx_out = ReceivedNoHeader

C24_DropLeadsToAccept == DropReported ~> (srv_pc = "accept")

====
